---- MODULE Spec2Model ----
(***************************************************************************)
(* Model of the necrosword executor service (internal/grpc/server.go):     *)
(* the registry of running processes, the four execution operations        *)
(* (Execute, ExecuteStream, ExecutePipeline, ExecutePipelineStream),       *)
(* CancelProcess and GetRunningProcesses, together with the environment    *)
(* they run against: child processes that write lines to their two output  *)
(* pipes and exit by themselves, context deadlines that fire, and a        *)
(* response stream whose Send may fail.                                    *)
(*                                                                         *)
(* Each concurrent gRPC call occupies one element of Calls.  A handler is  *)
(* cut into atomic actions at the points where another goroutine can       *)
(* observe it: the spawn, the registry insert, each line a reader scans,   *)
(* the join of the two output readers, cmd.Wait, and the deferred registry *)
(* delete.                                                                 *)
(***************************************************************************)
EXTENDS Integers, Sequences, FiniteSets, TLC

\* ------------------------------------------------------------------ bounds
\* Longest pipeline (number of steps) a request carries.
MaxSteps == 2

\* Most lines a process writes to one of its output pipes.
MaxLines == 2

\* The seconds the clock of a timed call runs.
MaxTime == 4

\* The calls the service receives.
Calls == {"c1", "c2"}

Operations == {"Execute", "ExecuteStream", "ExecutePipeline", "ExecutePipelineStream"}

\* The workloads explored, as the operations each call may carry, the most
\* lines its processes write per pipe and the most steps its pipeline has: one
\* call of any operation running silent tools, a single execution concurrent
\* with an Execute call, both of silent tools, one single execution of a tool
\* that writes output, or one streaming pipeline of a single step whose tool
\* writes one line per pipe.
Workloads ==
    { [c \in Calls |-> [Ops |-> IF c = "c1" THEN Operations ELSE {},
                        Lines |-> 0, Steps |-> MaxSteps]],
      [c \in Calls |-> [Ops |-> IF c = "c1" THEN {"Execute", "ExecuteStream"}
                                              ELSE {"Execute"},
                        Lines |-> 0, Steps |-> 0]],
      [c \in Calls |-> [Ops |-> IF c = "c1" THEN {"Execute", "ExecuteStream"} ELSE {},
                        Lines |-> MaxLines, Steps |-> 0]],
      [c \in Calls |-> [Ops |-> IF c = "c1" THEN {"ExecutePipelineStream"} ELSE {},
                        Lines |-> 1, Steps |-> 1]] }

\* ------------------------------------------------------------ tool names
\* A tool name is a sequence of characters, so that case folding is computed.
Git == <<"g", "i", "t">>
GitUpper == <<"G", "i", "T">>
Rm == <<"r", "m">>

\* The tools a request may name.
Tools == {Git, GitUpper, Rm}

\* executor.allowed_tools of the configuration.
AllowedTools == {Git}

UpperChars == <<"G", "I", "T", "R", "M">>
LowerChars == <<"g", "i", "t", "r", "m">>

ToLowerChar(ch) ==
    IF \E k \in DOMAIN UpperChars : UpperChars[k] = ch
    THEN LowerChars[CHOOSE k \in DOMAIN UpperChars : UpperChars[k] = ch]
    ELSE ch

ToLower(t) == [k \in DOMAIN t |-> ToLowerChar(t[k])]

\* config.ExecutorConfig.IsToolAllowed: case-insensitive exact match.
IsToolAllowed(t) == \E a \in AllowedTools : ToLower(a) = ToLower(t)

\* ------------------------------------------------------------- constants
\* ctx.Err(): nil, context.DeadlineExceeded or context.Canceled.
CtxErrs == {"nil", "DeadlineExceeded", "Canceled"}

\* Exit codes of a process that exits by itself.
ExitCodes == {0, 1}

\* What can go wrong before the process exists.
Failures == {"none", "pipe", "start"}

\* uuid.New().String(): a fresh id per execution; one execution per call and step.
NewProcessID(c, i) == <<c, i>>

\* An id no execution has.
UnknownID == <<"unknown", 0>>

\* The ids a CancelRequest may carry.
ProcessIDs == (Calls \X (0 .. MaxSteps - 1)) \cup {UnknownID}

\* The name of the step at index i (0-based) of a pipeline request.
StepName(i) == "step" \o ToString(i + 1)

\* A BuildStep of a pipeline request.
BuildSteps == [Tool : Tools, ContinueOnError : BOOLEAN]

\* TimeoutSeconds of a pipeline request: 0 (absent) or positive.
Timeouts == {0, 30}

\* The two output pipes of a process.
Channels == {"stdout", "stderr"}

\* The text of the k-th line a process writes to a pipe.
Line(ch, k) == (IF ch = "stdout" THEN "out" ELSE "err") \o ToString(k)

\* No ExecuteResponse (a nil pointer).
NoResult == [ExitCode |-> 0, Success |-> FALSE, Error |-> "none", TimedOut |-> FALSE,
             Stdout |-> <<>>, Stderr |-> <<>>]

\* No CancelResponse: CancelProcess has not been called.
NoCancelResponse == [Success |-> FALSE, Message |-> "none"]

\* A nil slice: no backing array.
NilSlice == [Array |-> <<>>, Len |-> 0]

\* The two pipeline operations.
Variants == {"ExecutePipeline", "ExecutePipelineStream"}

\* A pipeline request without steps, and no command built.
NoPipelineRequest == [WorkspaceDir |-> "", Env |-> NilSlice, Steps |-> <<>>]
NoCommands == [v \in Variants |-> <<>>]

\* A context without a deadline.
NoDeadline == [Set |-> FALSE, At |-> 0]

\* default_timeout of the sample configuration.
DefaultConfig == [DefaultTimeout |-> 3600]

\* No call is followed: no request, no process, no result.
IdleTimedCall ==
    [Op |-> "none", pc |-> "idle", TimeoutSeconds |-> 0, StepTimeoutSeconds |-> 0,
     PipelineDeadline |-> NoDeadline, Deadline |-> NoDeadline, StartedAt |-> 0,
     EndedAt |-> 0, ExitCode |-> 0, Success |-> FALSE, Error |-> "none",
     TimedOut |-> FALSE]

\* The calls in flight when the server shuts down.
Rpcs == {"r1", "r2", "r3"}

\* The shutdown goroutine waits for a signal; no stopper goroutine, no timer.
NoShutdown ==
    [pc |-> "waiting", Stopper |-> "none", Timer |-> "none", FiredAt |-> "none",
     Forced |-> FALSE]

\* No Health call has returned yet.
NoHealthResponse == [Status |-> "none", RunningCount |-> 0, MaxConcurrent |-> 0]

\* A reader that has scanned nothing: its strings.Builder is empty.
NewReader == [Buf |-> <<>>, Returned |-> FALSE]

\* No PipelineResponse.
NoResponse == [Success |-> TRUE, FailedStep |-> "", CompletedSteps |-> 0,
               TotalSteps |-> 0, StepResults |-> <<>>]

\* No process: the call has not started one, or its execution has returned.
NoProcess == [State |-> "none", Tool |-> <<>>, Op |-> "none", ExitCode |-> 0,
              KilledBy |-> "none", Bound |-> "none", Cancelled |-> FALSE]

\* ------------------------------------------------------------------ state
\* The goroutines that use the registry at the same time.
Workers == {"w1", "w2", "w3"}

\* What such a goroutine is there for: an execution (of Execute, ExecuteStream
\* or executeStepWithStreaming), or one of the three reading operations.
Jobs == {"Execute", "CancelProcess", "GetRunningProcesses", "Health"}

\* No RunningProcess (a nil pointer).
NoHandle == [ID |-> UnknownID, Tool |-> <<>>, Cancel |-> "none"]

\* Nothing read from the registry.
NothingSeen == [Len |-> -1, Handles |-> {}]

\* A goroutine without a job.
IdleWorker == [Job |-> "none", pc |-> "idle", ID |-> UnknownID, Handle |-> NoHandle,
               Seen |-> NothingSeen]

VARIABLES
    running,    \* ExecutorServer.running: process id -> RunningProcess
    call,       \* per call: operation, position, step index, returned error
    ctx,        \* per call: Err() of the pipeline context and of the execution context
    process,    \* per call: the process of its current execution
    result,     \* per call: the ExecuteResponse of its latest execution
    response,   \* per call: the PipelineResponse being built
    steps,      \* per call: the ContinueOnError flags of req.Steps read so far
    output,     \* per call and pipe: the number of lines the process has written
    reader,     \* per call and pipe: the reader's buffer, and whether it returned early
    stream,     \* per call: the messages delivered on its response stream, in order
    cancelResponse, \* the CancelResponse of the latest CancelProcess
    healthResponse, \* the HealthResponse of the latest Health
    environ,        \* os.Environ() of the server process
    pipelineReq,    \* a decoded PipelineRequest: workspace dir, env slice, steps
    cmd,            \* per pipeline variant: the exec.Cmd built for each step so far
    now,            \* time.Now(), in seconds
    config,         \* s.config: the configured default timeout
    timedCall,      \* one call and its process, with their deadlines
    grpcServer,     \* a.grpcServer: serving, draining or stopped, and its in-flight calls
    shutdown,       \* the shutdown goroutine of App.Run, its stopper and its timer
    mu,             \* ExecutorServer.mu: the writer and the readers holding the RWMutex
    worker,         \* per goroutine that uses the registry: its job and its position
    inSend          \* the readers that are inside stream.Send: <<call, pipe>> pairs

vars == <<running, call, ctx, process, result, response, steps,
          output, reader, stream, cancelResponse, healthResponse,
          environ, pipelineReq, cmd, now, config, timedCall, grpcServer, shutdown,
          mu, worker, inSend>>

\* The state of the executions and of their registry.
executions == <<running, call, ctx, process, result, response, steps,
                output, reader, stream, cancelResponse>>

\* The commands built from a pipeline request.
building == <<environ, pipelineReq, cmd>>

\* The clock, and the call whose deadlines are followed.
timing == <<now, config, timedCall>>

\* The gRPC server of App.Run and its shutdown.
serving == <<grpcServer, shutdown>>

\* The lock of the registry and the goroutines that take it.
locking == <<mu, worker>>

\* The state that the four execution operations and CancelProcess leave alone.
rest == <<healthResponse, building, timing, serving, locking, inSend>>

\* The state of the output path of the executions.
io == <<output, reader, stream>>

\* The positions of one execution: process started; handle inserted; both
\* readers finished; cmd.Wait returned and the result is built.
ExecPcs == {"spawned", "tracked", "joined", "reaped"}

\* Inserts and Removals count the inserts and the deletes of the handle of
\* the call's latest execution; Setup is how that execution left its set-up;
\* Lines is the most lines its processes write per pipe, Steps the most steps
\* of its pipeline.
IdleCall == [Ops |-> {}, Lines |-> 0, Steps |-> 0, Op |-> "none", pc |-> "idle", Tool |-> <<>>,
             Index |-> 0, TotalSteps |-> 0, TimeoutSeconds |-> 0, Err |-> "nil",
             Setup |-> "none", Inserts |-> 0, Removals |-> 0]

\* The executor after NewExecutorServer, about to serve one of the workloads ws.
ServerInit(ws) ==
    /\ running = <<>>
    /\ \E w \in ws :
          call = [c \in Calls |-> [IdleCall EXCEPT !.Ops = w[c].Ops, !.Lines = w[c].Lines,
                                                   !.Steps = w[c].Steps]]
    /\ ctx = [c \in Calls |-> [pipeline |-> "nil", exec |-> "nil"]]
    /\ process = [c \in Calls |-> NoProcess]
    /\ result = [c \in Calls |-> NoResult]
    /\ response = [c \in Calls |-> NoResponse]
    /\ steps = [c \in Calls |-> <<>>]
    /\ output = [c \in Calls |-> [ch \in Channels |-> 0]]
    /\ reader = [c \in Calls |-> [ch \in Channels |-> NewReader]]
    /\ stream = [c \in Calls |-> <<>>]
    /\ cancelResponse = NoCancelResponse

\* No Health call yet.
NoHealth == healthResponse = NoHealthResponse

\* No pipeline request whose commands are built.
NoBuilding ==
    /\ environ = <<>>
    /\ pipelineReq = NoPipelineRequest
    /\ cmd = NoCommands

\* The clock at the start, the configuration, no call followed.
NoTiming ==
    /\ now = 0
    /\ config = DefaultConfig
    /\ timedCall = IdleTimedCall

\* The server serves, no shutdown signal has arrived.
Serving ==
    /\ grpcServer = [State |-> "serving", Rpc |-> [r \in Rpcs |-> "none"]]
    /\ shutdown = NoShutdown

\* Nobody holds the lock of the registry and no goroutine is on its way to it.
Unlocked ==
    /\ mu = [writer |-> "none", readers |-> {}]
    /\ worker = [w \in Workers |-> IdleWorker]

\* No reader is inside stream.Send.
NoSending == inSend = {}

\* The state outside the executions before any request.
RestInit == NoHealth /\ NoBuilding /\ NoTiming /\ Serving /\ Unlocked /\ NoSending

Init == ServerInit(Workloads) /\ RestInit

\* --------------------------------------------------------------- helpers
\* Put that loses the pair.
PutNothing(f, k, v) == f

\* f with the pair k :> v added or replaced.
Put(f, k, v) == [x \in (DOMAIN f) \cup {k} |-> IF x = k THEN v ELSE f[x]]

\* Delete that leaves the entry in place.
DeleteNothing(f, k) == f

\* delete(s.running, processID)
Delete(f, k) == [x \in (DOMAIN f) \ {k} |-> f[x]]

\* The id of the execution call c is in now.
CurrentID(c) == NewProcessID(c, call[c].Index)

\* The RunningProcess built before the insert; Cancel names the call whose
\* execution context the stored CancelFunc cancels.
RunningProcess(id, tool, c) == [ID |-> id, Tool |-> tool, Cancel |-> c]

\* The allowlist check left out.
PolicyRejectsNothing(tool) == FALSE

\* if !s.config.IsToolAllowed(req.Tool) { return nil, error }
PolicyRejects(tool) == ~IsToolAllowed(tool)

\* Execute up to cmd.Start: which way the execution leaves the set-up.
ExecuteSetup(tool, fail) ==
    IF PolicyRejects(tool) THEN "policy"
    ELSE IF fail # "none" THEN fail
    ELSE "spawned"

\* executeStepWithStreaming up to cmd.Start.
StreamStepSetup(tool, fail) ==
    IF fail # "none" THEN fail ELSE "spawned"

\* The error text of a failed set-up.
SetupMessage(outcome) ==
    CASE outcome = "policy" -> "tool is not allowed"
      [] outcome = "pipe" -> "failed to create pipe"
      [] OTHER -> "failed to start command"

\* cancel() of a context: the first error sticks.
CancelCtx(err) == IF err = "nil" THEN "Canceled" ELSE err

\* The deadline timer of a context fires.
ExpireCtx(err) == IF err = "nil" THEN "DeadlineExceeded" ELSE err

\* A context that does not reach the process.
KillNothing(p, by) == p

\* exec.CommandContext: the process is killed once its context is done.
Kill(p, by) ==
    IF p.State = "running" THEN [p EXCEPT !.State = "killed", !.KilledBy = by] ELSE p

\* The context the command of an operation is created with: the execution
\* context of Execute and ExecuteStream, the pipeline context in
\* executeStepWithStreaming (which derives its execution context afterwards).
BoundCtx(op) == IF op = "ExecutePipelineStream" THEN "pipeline" ELSE "exec"

\* A process as cmd.Start leaves it.
StartedProcess(tool, op) ==
    [State |-> "running", Tool |-> tool, Op |-> op, ExitCode |-> 0,
     KilledBy |-> "none", Bound |-> BoundCtx(op), Cancelled |-> FALSE]

\* cmd.Wait(): nil, an *exec.ExitError, or ctx.Err() of the command's context
\* when that context was done before the process was reaped.
WaitErr(p, boundErr) ==
    IF p.State = "killed"
    THEN [Kind |-> "ExitError", ExitCode |-> -1, Message |-> "signal: killed"]
    ELSE IF p.ExitCode # 0
    THEN [Kind |-> "ExitError", ExitCode |-> p.ExitCode, Message |-> "exit status"]
    ELSE IF boundErr = "DeadlineExceeded"
    THEN [Kind |-> "ctx", ExitCode |-> 0, Message |-> "context deadline exceeded"]
    ELSE IF boundErr = "Canceled"
    THEN [Kind |-> "ctx", ExitCode |-> 0, Message |-> "context canceled"]
    ELSE [Kind |-> "nil", ExitCode |-> 0, Message |-> ""]

\* ctx.Err() == context.DeadlineExceeded
IsDeadlineExceeded(ctxErr) == ctxErr = "DeadlineExceeded"

\* The classification of the outcome into the ExecuteResponse.
Classify(err, ctxErr) ==
    IF err.Kind # "nil"
    THEN IF IsDeadlineExceeded(ctxErr)
         THEN [ExitCode |-> -1, Success |-> FALSE,
               Error |-> "command timed out", TimedOut |-> TRUE]
         ELSE IF err.Kind = "ExitError"
         THEN [ExitCode |-> err.ExitCode, Success |-> FALSE,
               Error |-> err.Message, TimedOut |-> FALSE]
         ELSE [ExitCode |-> -1, Success |-> FALSE,
               Error |-> err.Message, TimedOut |-> FALSE]
    ELSE [ExitCode |-> 0, Success |-> TRUE, Error |-> "", TimedOut |-> FALSE]

\* The synthesized result that drops the message.
SynthesizedResultNoMessage(msg) ==
    [ExitCode |-> 0, Success |-> FALSE, Error |-> "", TimedOut |-> FALSE,
     Stdout |-> <<>>, Stderr |-> <<>>]

\* &executorv1.ExecuteResponse{Success: false, Error: err.Error()}
SynthesizedResult(msg) ==
    [ExitCode |-> 0, Success |-> FALSE, Error |-> msg, TimedOut |-> FALSE,
     Stdout |-> <<>>, Stderr |-> <<>>]

\* The ExecuteResponse with its captured output: Stdout: stdoutBuf.String(),
\* Stderr: stderrBuf.String().
WithOutput(r, stdoutBuf, stderrBuf) ==
    [ExitCode |-> r.ExitCode, Success |-> r.Success, Error |-> r.Error,
     TimedOut |-> r.TimedOut, Stdout |-> stdoutBuf, Stderr |-> stderrBuf]

\* The line written without its newline.
WriteStringNoNewline(buf, line) == Append(buf, line)

\* buf.WriteString(line); buf.WriteString("\n")
WriteString(buf, line) == Append(Append(buf, line), "\n")

\* The lines a reader has scanned from its pipe.
Scanned(c, ch) == Len(reader[c][ch].Buf) \div 2

\* A reader is out of its loop: it returned after a failed Send, or scanner.Scan
\* met the end of the pipe (the process is gone and every line was scanned).
ReaderDone(c, ch) ==
    /\ <<c, ch>> \notin inSend
    /\ \/ reader[c][ch].Returned
       \/ process[c].State # "running" /\ Scanned(c, ch) = output[c][ch]

\* A message of a response stream.
Message(event, i, line) == [Event |-> event, StepIndex |-> i, Line |-> line]

\* A stream that delivers the newest message first.
SendFirst(s, msg, sendOk) == IF sendOk THEN <<msg>> \o s ELSE s

\* stream.Send(msg): the message is delivered, or Send returns an error.
Send(s, msg, sendOk) == IF sendOk THEN Append(s, msg) ELSE s

\* GetRunningProcesses: the ids of the snapshot taken under the read lock.
GetRunningProcesses == DOMAIN running

\* ------------------------------------------------ one execution, any path
\* The return of a call that never started a process (after the deferred
\* cancel() when the context was already created).
ReturnError(c, op, tool, outcome) ==
    /\ call' = [call EXCEPT ![c] = [@ EXCEPT !.Op = op, !.pc = "returned", !.Tool = tool,
                                               !.Err = outcome, !.Setup = outcome]]
    /\ ctx' = [ctx EXCEPT ![c].exec = IF outcome = "policy" THEN @ ELSE CancelCtx("nil")]
    /\ UNCHANGED <<running, process, result, response, steps, io, cancelResponse>>

\* cmd.Start succeeded: the process runs, its handle is not inserted yet.
Spawn(c, op, tool) ==
    /\ call' = [call EXCEPT ![c] = [@ EXCEPT !.Op = op, !.pc = "spawned", !.Tool = tool,
                                               !.Setup = "spawned",
                                               !.Inserts = 0, !.Removals = 0]]
    /\ ctx' = [ctx EXCEPT ![c].exec = "nil"]
    /\ process' = [process EXCEPT ![c] = StartedProcess(tool, op)]
    /\ UNCHANGED <<running, result, output, reader, cancelResponse>>

\* Execute, from the call to cmd.Start.
Execute(c, tool, fail) ==
    /\ call[c].pc = "idle"
    /\ "Execute" \in call[c].Ops
    /\ LET outcome == ExecuteSetup(tool, fail) IN
       IF outcome = "spawned"
       THEN Spawn(c, "Execute", tool) /\ UNCHANGED <<response, steps, stream>>
       ELSE ReturnError(c, "Execute", tool, outcome)
    /\ UNCHANGED rest

\* ExecuteStream, from the call to cmd.Start.
ExecuteStream(c, tool, fail) ==
    /\ call[c].pc = "idle"
    /\ "ExecuteStream" \in call[c].Ops
    /\ LET outcome == ExecuteSetup(tool, fail) IN
       IF outcome = "spawned"
       THEN Spawn(c, "ExecuteStream", tool) /\ UNCHANGED <<response, steps, stream>>
       ELSE ReturnError(c, "ExecuteStream", tool, outcome)
    /\ UNCHANGED rest

\* s.running[processID] = runningProc, under the write lock.
TrackProcess(c) ==
    /\ call[c].pc = "spawned"
    /\ running' = Put(running, CurrentID(c), RunningProcess(CurrentID(c), call[c].Tool, c))
    /\ call' = [call EXCEPT ![c] = [@ EXCEPT !.pc = "tracked", !.Inserts = @ + 1]]
    /\ UNCHANGED <<ctx, process, result, response, steps, io, cancelResponse>>
    /\ UNCHANGED rest

\* Readers that run as soon as the process exists.
ReadersStartedAtSpawn(c) == call[c].pc \in {"spawned", "tracked"}

\* The two reader goroutines are started after the insert of the handle and
\* run until wg.Wait() returns.
ReadersStarted(c) == call[c].pc = "tracked"

\* readOutput: one iteration of the scanner loop of a reader of Execute.
readOutput(c, ch) ==
    /\ ReadersStarted(c)
    /\ call[c].Op \in {"Execute", "ExecutePipeline"}
    /\ Scanned(c, ch) < output[c][ch]
    /\ reader' = [reader EXCEPT ![c][ch].Buf =
                     WriteString(@, Line(ch, Scanned(c, ch) + 1))]
    /\ UNCHANGED <<running, call, ctx, process, result, response, steps,
                   output, stream, cancelResponse>>
    /\ UNCHANGED rest

\* The event a streaming reader wraps a line in.
LineEvent(op, ch) ==
    IF op = "ExecutePipelineStream" THEN "step_" \o ch \o "_line" ELSE ch \o "_line"

\* A tag that names the first step whatever the step is.
StepTagFirst(c) == 0

\* StepIndex: int32(stepIndex) of a StepOutputEvent: the index the reader of
\* the step was started with (0 in ExecuteStream, which has no steps).
StepTag(c) == call[c].Index

\* streamOutput and streamPipelineOutput: one iteration of the scanner loop of
\* a streaming reader: the line is written to the buffer, then sent; the reader
\* returns when Send fails.
streamOutput(c, ch, sendOk) ==
    /\ ReadersStarted(c)
    /\ call[c].Op \in {"ExecuteStream", "ExecutePipelineStream"}
    /\ ~reader[c][ch].Returned
    /\ Scanned(c, ch) < output[c][ch]
    /\ LET line == Line(ch, Scanned(c, ch) + 1)
           msg == Message(LineEvent(call[c].Op, ch), StepTag(c), line)
       IN  /\ reader' = [reader EXCEPT ![c][ch] =
                            [Buf |-> WriteString(@.Buf, line), Returned |-> ~sendOk]]
           /\ stream' = [stream EXCEPT ![c] = Send(@, msg, sendOk)]
    /\ UNCHANGED <<running, call, ctx, process, result, response, steps,
                   output, cancelResponse>>
    /\ UNCHANGED rest

\* wg.Wait(): both readers are out of their loops.
ReadersJoin(c) ==
    /\ call[c].pc = "tracked"
    /\ \A ch \in Channels : ReaderDone(c, ch)
    /\ call' = [call EXCEPT ![c].pc = "joined"]
    /\ UNCHANGED <<running, ctx, process, result, response, steps, io, cancelResponse>>
    /\ UNCHANGED rest

\* cmd.Wait() and the classification of its error into the response.
CmdWait(c) ==
    /\ call[c].pc = "joined"
    /\ LET p == process[c]
           err == WaitErr(p, ctx[c][p.Bound])
       IN  /\ result' = [result EXCEPT ![c] =
                            WithOutput(Classify(err, ctx[c].exec),
                                       reader[c]["stdout"].Buf, reader[c]["stderr"].Buf)]
           /\ process' = [process EXCEPT ![c].State = "reaped"]
    /\ call' = [call EXCEPT ![c].pc = "reaped"]
    /\ UNCHANGED <<running, ctx, response, steps, io, cancelResponse>>
    /\ UNCHANGED rest

\* The deferred delete(s.running, processID) of the execution of call c; the
\* reaped process, its pipes and the buffers of the readers are gone when the
\* execution returns.
Untrack(c) ==
    /\ running' = Delete(running, CurrentID(c))
    /\ process' = [process EXCEPT ![c] = NoProcess]
    /\ output' = [output EXCEPT ![c] = [ch \in Channels |-> 0]]
    /\ reader' = [reader EXCEPT ![c] = [ch \in Channels |-> NewReader]]

\* Execute returns its response: the deferred delete, then the deferred cancel.
ExecuteReturn(c) ==
    /\ call[c].pc = "reaped"
    /\ call[c].Op = "Execute"
    /\ Untrack(c)
    /\ ctx' = [ctx EXCEPT ![c].exec = CancelCtx(@)]
    /\ call' = [call EXCEPT ![c] = [@ EXCEPT !.pc = "returned", !.Removals = @ + 1]]
    /\ UNCHANGED <<result, response, steps, stream, cancelResponse>>
    /\ UNCHANGED rest

\* ExecuteStream sends the final result and returns.
ExecuteStreamReturn(c, sendOk) ==
    /\ call[c].pc = "reaped"
    /\ call[c].Op = "ExecuteStream"
    /\ Untrack(c)
    /\ ctx' = [ctx EXCEPT ![c].exec = CancelCtx(@)]
    /\ call' = [call EXCEPT ![c] = [@ EXCEPT !.pc = "returned", !.Removals = @ + 1,
                                               !.Err = IF sendOk THEN "nil" ELSE "send"]]
    /\ stream' = [stream EXCEPT ![c] = Send(@, Message("result", call[c].Index, ""), sendOk)]
    /\ UNCHANGED <<result, response, steps, cancelResponse>>
    /\ UNCHANGED rest

\* ---------------------------------------------------------- environment
\* The process of an execution exits by itself.
ProcessExit(c, code) ==
    /\ process[c].State = "running"
    /\ process' = [process EXCEPT ![c] = [@ EXCEPT !.State = "exited", !.ExitCode = code]]
    /\ UNCHANGED <<running, call, ctx, result, response, steps, io, cancelResponse>>
    /\ UNCHANGED rest

\* The process of an execution writes one more line to one of its pipes.
WriteLine(c, ch) ==
    /\ process[c].State = "running"
    /\ output[c][ch] < call[c].Lines
    /\ output' = [output EXCEPT ![c][ch] = @ + 1]
    /\ UNCHANGED <<running, call, ctx, process, result, response, steps,
                   reader, stream, cancelResponse>>
    /\ UNCHANGED rest

\* The timer of context.WithTimeout(ctx, timeout) in Execute or ExecuteStream fires.
DeadlineExceeded(c) ==
    /\ call[c].pc \in ExecPcs
    /\ call[c].Op # "ExecutePipelineStream"
    /\ ctx[c].exec = "nil"
    /\ ctx' = [ctx EXCEPT ![c].exec = ExpireCtx(@)]
    /\ process' = [process EXCEPT ![c] = Kill(@, "deadline")]
    /\ UNCHANGED <<running, call, result, response, steps, io, cancelResponse>>
    /\ UNCHANGED rest

\* ------------------------------------------------------------ CancelProcess
\* A cancellation that reaches the process of every handle in the registry.
CancelEveryHandle(h) ==
    LET cs == {running[id].Cancel : id \in DOMAIN running}
    IN  /\ ctx' = [c \in Calls |-> IF c \in cs THEN [ctx[c] EXCEPT !.exec = CancelCtx(@)] ELSE ctx[c]]
        /\ process' = [c \in Calls |->
                         IF c \in cs
                         THEN LET p == [process[c] EXCEPT !.Cancelled = TRUE]
                              IN  IF p.Bound = "exec" THEN Kill(p, "cancel") ELSE p
                         ELSE process[c]]

\* proc.Cancel() of a handle: the execution context of the owning call is
\* cancelled, and the process is killed when its command was created with
\* that context.
CancelHandle(h) ==
    LET c == h.Cancel
        p == [process[c] EXCEPT !.Cancelled = TRUE]
    IN  /\ ctx' = [ctx EXCEPT ![c].exec = CancelCtx(@)]
        /\ process' = [process EXCEPT ![c] = IF p.Bound = "exec" THEN Kill(p, "cancel") ELSE p]

\* The response that always reports a cancellation.
CancelResponseAlwaysFound(id) == [Success |-> TRUE, Message |-> "cancelled"]

\* The CancelResponse for a request naming id.
CancelResponse(id) ==
    IF id \in DOMAIN running
    THEN [Success |-> TRUE, Message |-> "cancelled"]
    ELSE [Success |-> FALSE, Message |-> "not found"]

CancelProcess(id) ==
    /\ IF id \in DOMAIN running
       THEN CancelHandle(running[id])
       ELSE UNCHANGED <<ctx, process>>
    /\ cancelResponse' = CancelResponse(id)
    /\ UNCHANGED <<running, call, result, response, steps, io>>
    /\ UNCHANGED rest

\* -------------------------------------------------------- ExecutePipeline
\* A StepResult, with the success flag and the error of its ExecuteResult.
StepResult(i, execResult) ==
    [Name |-> StepName(i), StepIndex |-> i, Success |-> execResult.Success,
     Error |-> execResult.Error]

\* A PipelineResponse that starts as failed.
NewResponseFailed(n) ==
    [Success |-> FALSE, FailedStep |-> "", CompletedSteps |-> 0,
     TotalSteps |-> n, StepResults |-> <<>>]

\* The PipelineResponse built before the loop.
NewResponse(n) ==
    [Success |-> TRUE, FailedStep |-> "", CompletedSteps |-> 0,
     TotalSteps |-> n, StepResults |-> <<>>]

\* The break that leaves the response as it is.
DeadlineBreakUnmarked(resp, i) == resp

\* if ctx.Err() != nil { response.Success = false; response.FailedStep = step.Name; break }
DeadlineBreak(resp, i) == [resp EXCEPT !.Success = FALSE, !.FailedStep = StepName(i)]

\* The counter set to the index instead of the count.
CompletedAfterOffByOne(i) == i

\* response.CompletedSteps = int32(i + 1)
CompletedAfter(i) == i + 1

\* ExecutePipeline after s.Execute returned (failed = it returned an error):
\* the step result is built and appended, the counters are updated.
AfterExecute(resp, i, coe, execResult, failed) ==
    LET fails == failed \/ (~execResult.Success /\ ~coe) IN
    [resp EXCEPT !.Success = IF fails THEN FALSE ELSE @,
                 !.FailedStep = IF fails THEN StepName(i) ELSE @,
                 !.StepResults = Append(@, StepResult(i, execResult)),
                 !.CompletedSteps = CompletedAfter(i)]

\* The loop that never breaks on a failed step.
StopAfterStepNever(resp, coe) == FALSE

\* if !response.Success && !step.ContinueOnError { break }
StopAfterStep(resp, coe) == ~resp.Success /\ ~coe

\* The loop of ExecutePipeline goes on to step i+1, or the call returns (its
\* deferred cancel ends the pipeline context).
PipelineNext(c, stop, setup, inserts, removals) ==
    LET last == stop \/ call[c].Index + 1 = call[c].TotalSteps IN
    /\ call' = [call EXCEPT ![c] =
                  IF last
                  THEN [@ EXCEPT !.pc = "returned", !.Setup = setup,
                                 !.Inserts = inserts, !.Removals = removals]
                  ELSE [@ EXCEPT !.pc = "loop", !.Index = @ + 1, !.Setup = setup,
                                 !.Inserts = inserts, !.Removals = removals]]
    /\ ctx' = [ctx EXCEPT ![c] = [pipeline |-> IF last /\ call[c].TimeoutSeconds > 0
                                               THEN CancelCtx(@.pipeline) ELSE @.pipeline,
                                  exec |-> CancelCtx(@.exec)]]

\* ExecutePipeline, from the call to the head of its loop.
ExecutePipeline(c, n, timeout) ==
    /\ call[c].pc = "idle"
    /\ "ExecutePipeline" \in call[c].Ops
    /\ n <= call[c].Steps
    /\ call' = [call EXCEPT ![c] = [@ EXCEPT !.Op = "ExecutePipeline",
                                               !.pc = IF n = 0 THEN "returned" ELSE "loop",
                                               !.TotalSteps = n,
                                               !.TimeoutSeconds = timeout]]
    /\ ctx' = [ctx EXCEPT ![c].pipeline = IF n = 0 /\ timeout > 0 THEN CancelCtx(@) ELSE @]
    /\ response' = [response EXCEPT ![c] = NewResponse(n)]
    /\ UNCHANGED <<running, process, result, steps, io, cancelResponse>>
    /\ UNCHANGED rest

\* One iteration of the loop of ExecutePipeline up to cmd.Start inside Execute;
\* when Execute returns an error, also the rest of the iteration.
ExecutePipelineStep(c, st, fail) ==
    /\ call[c].pc = "loop"
    /\ call[c].Op = "ExecutePipeline"
    /\ LET i == call[c].Index
           outcome == ExecuteSetup(st.Tool, fail)
       IN
       IF ctx[c].pipeline # "nil"
       THEN /\ response' = [response EXCEPT ![c] = DeadlineBreak(@, i)]
            /\ call' = [call EXCEPT ![c].pc = "returned"]
            /\ UNCHANGED <<running, ctx, process, result, steps, io, cancelResponse>>
       ELSE IF outcome = "spawned"
       THEN /\ Spawn(c, "ExecutePipeline", st.Tool)
            /\ steps' = [steps EXCEPT ![c] = Append(@, st.ContinueOnError)]
            /\ UNCHANGED <<response, stream>>
       ELSE LET synth == SynthesizedResult(SetupMessage(outcome))
                resp == AfterExecute(response[c], i, st.ContinueOnError, synth, TRUE)
            IN  /\ steps' = [steps EXCEPT ![c] = Append(@, st.ContinueOnError)]
                /\ result' = [result EXCEPT ![c] = synth]
                /\ response' = [response EXCEPT ![c] = resp]
                /\ PipelineNext(c, StopAfterStep(resp, st.ContinueOnError), outcome, 0, 0)
                /\ UNCHANGED <<running, process, io, cancelResponse>>
    /\ UNCHANGED rest

\* Execute returns into the loop of ExecutePipeline: the deferred delete, then
\* the rest of the iteration.
ExecutePipelineStepReturn(c) ==
    /\ call[c].pc = "reaped"
    /\ call[c].Op = "ExecutePipeline"
    /\ Untrack(c)
    /\ LET i == call[c].Index
           coe == steps[c][i + 1]
           resp == AfterExecute(response[c], i, coe, result[c], FALSE)
       IN  /\ response' = [response EXCEPT ![c] = resp]
           /\ PipelineNext(c, StopAfterStep(resp, coe), call[c].Setup,
                           call[c].Inserts, call[c].Removals + 1)
    /\ UNCHANGED <<result, steps, stream, cancelResponse>>
    /\ UNCHANGED rest

\* The timer of the pipeline's context.WithTimeout fires: the contexts derived
\* from it are done too.
PipelineDeadlineExceeded(c) ==
    /\ call[c].Op \in {"ExecutePipeline", "ExecutePipelineStream"}
    /\ call[c].pc # "returned"
    /\ call[c].TimeoutSeconds > 0
    /\ ctx[c].pipeline = "nil"
    /\ ctx' = [ctx EXCEPT ![c] = [pipeline |-> ExpireCtx(@.pipeline),
                                  exec |-> IF call[c].pc \in ExecPcs
                                           THEN ExpireCtx(@.exec) ELSE @.exec]]
    /\ process' = [process EXCEPT ![c] = Kill(@, "deadline")]
    /\ UNCHANGED <<running, call, result, response, steps, io, cancelResponse>>
    /\ UNCHANGED rest

\* -------------------------------------------------- ExecutePipelineStream
\* ExecutePipelineStream, from the call to the head of its loop.
ExecutePipelineStream(c, n, timeout) ==
    /\ call[c].pc = "idle"
    /\ "ExecutePipelineStream" \in call[c].Ops
    /\ n <= call[c].Steps
    /\ call' = [call EXCEPT ![c] = [@ EXCEPT !.Op = "ExecutePipelineStream",
                                               !.pc = IF n = 0 THEN "finish" ELSE "loop",
                                               !.TotalSteps = n,
                                               !.TimeoutSeconds = timeout]]
    /\ response' = [response EXCEPT ![c] = NewResponse(n)]
    /\ UNCHANGED <<running, ctx, process, result, steps, io, cancelResponse>>
    /\ UNCHANGED rest

\* The streaming call returns: its deferred cancel ends the pipeline context.
StreamReturn(c, err) ==
    /\ call' = [call EXCEPT ![c] = [@ EXCEPT !.pc = "returned", !.Err = err]]
    /\ ctx' = [ctx EXCEPT ![c].pipeline = IF call[c].TimeoutSeconds > 0
                                          THEN CancelCtx(@) ELSE @]

\* One iteration of the loop of ExecutePipelineStream: the deadline check, the
\* step-started event, executeStepWithStreaming up to cmd.Start.
ExecutePipelineStreamStep(c, st, fail, sendOk) ==
    /\ call[c].pc = "loop"
    /\ call[c].Op = "ExecutePipelineStream"
    /\ LET i == call[c].Index
           outcome == StreamStepSetup(st.Tool, fail)
       IN
       IF ctx[c].pipeline # "nil"
       THEN /\ response' = [response EXCEPT ![c] = DeadlineBreak(@, i)]
            /\ call' = [call EXCEPT ![c].pc = "finish"]
            /\ UNCHANGED <<running, ctx, process, result, steps, io, cancelResponse>>
       ELSE IF ~sendOk
       THEN /\ StreamReturn(c, "send")
            /\ UNCHANGED <<running, process, result, response, steps, io, cancelResponse>>
       ELSE IF outcome = "spawned"
       THEN /\ Spawn(c, "ExecutePipelineStream", st.Tool)
            /\ steps' = [steps EXCEPT ![c] = Append(@, st.ContinueOnError)]
            /\ stream' = [stream EXCEPT ![c] = Send(@, Message("step_started", i, ""), TRUE)]
            /\ UNCHANGED response
       ELSE /\ steps' = [steps EXCEPT ![c] = Append(@, st.ContinueOnError)]
            /\ result' = [result EXCEPT ![c] = SynthesizedResult(SetupMessage(outcome))]
            /\ call' = [call EXCEPT ![c] = [@ EXCEPT !.pc = "stepdone", !.Setup = outcome,
                                                       !.Inserts = 0, !.Removals = 0]]
            /\ stream' = [stream EXCEPT ![c] = Send(@, Message("step_started", i, ""), TRUE)]
            /\ UNCHANGED <<running, ctx, process, response, output, reader, cancelResponse>>
    /\ UNCHANGED rest

\* executeStepWithStreaming returns its StepResult: the deferred delete.  The
\* CancelFunc of its derived context is not called.
executeStepWithStreaming(c) ==
    /\ call[c].pc = "reaped"
    /\ call[c].Op = "ExecutePipelineStream"
    /\ Untrack(c)
    /\ call' = [call EXCEPT ![c] = [@ EXCEPT !.pc = "stepdone", !.Removals = @ + 1]]
    /\ UNCHANGED <<ctx, result, response, steps, stream, cancelResponse>>
    /\ UNCHANGED rest

\* The step result counted but not appended.
AppendStepResultLost(resp, i, execResult) == [resp EXCEPT !.CompletedSteps = CompletedAfter(i)]

\* response.StepResults = append(...); response.CompletedSteps = int32(i + 1)
AppendStepResult(resp, i, execResult) ==
    [resp EXCEPT !.StepResults = Append(@, StepResult(i, execResult)),
                 !.CompletedSteps = CompletedAfter(i)]

\* if !stepResult.ExecuteResult.Success { if !step.ContinueOnError { ... break } }
StreamStop(execResult, coe) == ~execResult.Success /\ ~coe

\* The rest of an iteration of ExecutePipelineStream: the step result is
\* appended, the step-completed event is sent, the loop stops or goes on.
StepCompleted(c, sendOk) ==
    /\ call[c].pc = "stepdone"
    /\ LET i == call[c].Index
           coe == steps[c][i + 1]
           resp == AppendStepResult(response[c], i, result[c])
           stop == StreamStop(result[c], coe)
       IN
       IF ~sendOk
       THEN /\ response' = [response EXCEPT ![c] = resp]
            /\ StreamReturn(c, "send")
       ELSE /\ response' = [response EXCEPT ![c] =
                              IF stop THEN [resp EXCEPT !.Success = FALSE,
                                                        !.FailedStep = StepName(i)]
                              ELSE resp]
            /\ call' = [call EXCEPT ![c] =
                          IF stop \/ i + 1 = call[c].TotalSteps
                          THEN [@ EXCEPT !.pc = "finish"]
                          ELSE [@ EXCEPT !.pc = "loop", !.Index = @ + 1]]
            /\ UNCHANGED ctx
    /\ stream' = [stream EXCEPT ![c] =
                     Send(@, Message("step_completed", call[c].Index, ""), sendOk)]
    /\ UNCHANGED <<running, process, result, steps, output, reader, cancelResponse>>
    /\ UNCHANGED rest

\* A pipeline-completed event that carries a fresh response instead of the
\* accumulated one.
PipelineCompletedEventFresh(resp, i) ==
    [Event |-> "pipeline_completed", StepIndex |-> i, Line |-> "",
     Result |-> NewResponse(resp.TotalSteps)]

\* PipelineStreamResponse_PipelineCompleted{PipelineCompleted: response}
PipelineCompletedEvent(resp, i) ==
    [Event |-> "pipeline_completed", StepIndex |-> i, Line |-> "", Result |-> resp]

\* The pipeline-completed event is sent and the call returns.
PipelineCompleted(c, sendOk) ==
    /\ call[c].pc = "finish"
    /\ StreamReturn(c, IF sendOk THEN "nil" ELSE "send")
    /\ stream' = [stream EXCEPT ![c] =
                     Send(@, PipelineCompletedEvent(response[c], call[c].Index), sendOk)]
    /\ UNCHANGED <<running, process, result, response, steps, output, reader, cancelResponse>>
    /\ UNCHANGED rest

\* ----------------------------------------------------------------- Health
\* s.config.MaxConcurrent, configured below the number of concurrent calls.
MaxConcurrent == Cardinality(Calls) - 1

\* A response whose count never exceeds the configured limit.
HealthResponseCapped(count) ==
    [Status |-> "healthy",
     RunningCount |-> IF count > MaxConcurrent THEN MaxConcurrent ELSE count,
     MaxConcurrent |-> MaxConcurrent]

\* &executorv1.HealthResponse{Status: "healthy", RunningCount: int32(runningCount),
\*                            MaxConcurrent: int32(s.config.MaxConcurrent)}
HealthResponse(count) ==
    [Status |-> "healthy", RunningCount |-> count, MaxConcurrent |-> MaxConcurrent]

\* Health: len(s.running) is read under the read lock and reported.
Health ==
    /\ healthResponse' = HealthResponse(Cardinality(DOMAIN running))
    /\ UNCHANGED <<executions, locking, inSend, building, timing, serving>>

\* --------------------------------------------- commands of pipeline steps
\* The string "KEY=VALUE" as its characters.
Kv(k, v) == <<k, "=", v>>

\* strings.Index(kv, "="): the position of the first "=".
IndexEq(kv) == CHOOSE i \in 1 .. Len(kv) : kv[i] = "=" /\ \A j \in 1 .. i - 1 : kv[j] # "="

\* kv[:i], the key of an entry.
KeyOf(kv) == SubSeq(kv, 1, IndexEq(kv) - 1)

\* The entries of env from position i on that position-set keep holds.
RECURSIVE Kept(_, _, _)
Kept(env, keep, i) ==
    IF i > Len(env) THEN <<>>
    ELSE (IF i \in keep THEN <<env[i]>> ELSE <<>>) \o Kept(env, keep, i + 1)

\* Of the entries with one key the first is kept.
DedupEnvFirstWins(env) ==
    Kept(env, {i \in 1 .. Len(env) : \A j \in 1 .. i - 1 : KeyOf(env[j]) # KeyOf(env[i])}, 1)

\* dedupEnv of os/exec: of the entries with one key only the last is kept, the
\* order of the kept entries is that of env.  (Every entry here has a "=".)
DedupEnv(env) ==
    Kept(env, {i \in 1 .. Len(env) :
                 \A j \in i + 1 .. Len(env) : KeyOf(env[j]) # KeyOf(env[i])}, 1)

\* The implicit entry of a command with a directory.
PwdEntry(dir) == <<"P", "W", "D", "=", dir>>

\* cmd.Environ() of a command whose Env is nil: os.Environ(), with the PWD
\* entry when cmd.Dir is set, deduplicated.
Environ(dir) == DedupEnv(IF dir = "" THEN environ ELSE Append(environ, PwdEntry(dir)))

\* s[:len(s)], the elements of a slice.
Elements(slice) == SubSeq(slice.Array, 1, slice.Len)

\* append(slice, xs...) writes into the backing array of slice.
InPlace(slice, xs) == xs # <<>> /\ slice.Len + Len(xs) <= Len(slice.Array)

\* append(slice, xs...): within the capacity the elements are written into the
\* backing array of slice, beyond it into a new array.
GoAppend(slice, xs) ==
    IF xs = <<>> THEN slice
    ELSE IF InPlace(slice, xs)
    THEN [Array |-> [i \in 1 .. Len(slice.Array) |->
                        IF i > slice.Len /\ i <= slice.Len + Len(xs)
                        THEN xs[i - slice.Len] ELSE slice.Array[i]],
          Len |-> slice.Len + Len(xs)]
    ELSE [Array |-> Elements(slice) \o xs, Len |-> slice.Len + Len(xs)]

\* The directory of a step that looks at the step only.
StepDirOnly(step, req) == step.WorkDir

\* ExecutePipeline: execReq.WorkDir of a step ("" when it is left unset).
RequestWorkDir(step, req) ==
    IF step.WorkDir # "" /\ req.WorkspaceDir # "" THEN req.WorkspaceDir \o "/" \o step.WorkDir
    ELSE IF step.WorkDir # "" THEN step.WorkDir
    ELSE IF req.WorkspaceDir # "" THEN req.WorkspaceDir
    ELSE ""

\* executeStepWithStreaming: cmd.Dir of a step ("" when it is left unset).
StepCommandDir(step, req) ==
    IF step.WorkDir # "" /\ req.WorkspaceDir # "" THEN req.WorkspaceDir \o "/" \o step.WorkDir
    ELSE IF step.WorkDir # "" THEN step.WorkDir
    ELSE IF req.WorkspaceDir # "" THEN req.WorkspaceDir
    ELSE ""

\* An exec.Cmd: its Dir, its Env and whether Env is not nil.
Command(dir, envSet, env) == [Dir |-> dir, EnvSet |-> envSet, Env |-> env]

\* One iteration of ExecutePipeline up to the environment of the command:
\* execReq is built (its Env appended to req.Env), then Execute sets cmd.Dir
\* and cmd.Env.
BuildExecuteRequest ==
    /\ Len(cmd["ExecutePipeline"]) < Len(pipelineReq.Steps)
    /\ LET step == pipelineReq.Steps[Len(cmd["ExecutePipeline"]) + 1]
           execEnv == GoAppend(pipelineReq.Env, step.Env)
           workDir == RequestWorkDir(step, pipelineReq)
           c == IF execEnv.Len > 0
                THEN Command(workDir, TRUE, Environ(workDir) \o Elements(execEnv))
                ELSE Command(workDir, FALSE, <<>>)
       IN  /\ cmd' = [cmd EXCEPT !["ExecutePipeline"] = Append(@, c)]
           /\ pipelineReq' = [pipelineReq EXCEPT !.Env =
                                 IF InPlace(@, step.Env)
                                 THEN [Array |-> execEnv.Array, Len |-> @.Len] ELSE @]
    /\ UNCHANGED <<executions, locking, inSend, healthResponse, environ, timing, serving>>

\* executeStepWithStreaming up to the environment of the command.
BuildStepCommand ==
    /\ Len(cmd["ExecutePipelineStream"]) < Len(pipelineReq.Steps)
    /\ LET step == pipelineReq.Steps[Len(cmd["ExecutePipelineStream"]) + 1]
           dir == StepCommandDir(step, pipelineReq)
           c == IF pipelineReq.Env.Len > 0 \/ Len(step.Env) > 0
                THEN Command(dir, TRUE,
                             (Environ(dir) \o Elements(pipelineReq.Env)) \o step.Env)
                ELSE Command(dir, FALSE, <<>>)
       IN  cmd' = [cmd EXCEPT !["ExecutePipelineStream"] = Append(@, c)]
    /\ UNCHANGED <<executions, locking, inSend, healthResponse, environ, pipelineReq, timing, serving>>

\* cmd.Start: the environment the process gets.
ProcessEnv(c) == IF c.EnvSet THEN DedupEnv(c.Env) ELSE Environ(c.Dir)

\* -------------------------------------------------------------- deadlines
\* context.WithTimeout(parent, t seconds): the deadline is now + t, or the
\* parent's when that is earlier.
WithTimeout(parent, t) ==
    IF parent.Set /\ parent.At <= now + t THEN parent ELSE [Set |-> TRUE, At |-> now + t]

\* ctx.Err() of a context with deadline d.
DeadlineErr(d) == IF d.Set /\ now >= d.At THEN "DeadlineExceeded" ELSE "nil"

\* The timeout that is always the configured default.
EffectiveTimeoutDefault(timeoutSeconds) == config.DefaultTimeout

\* timeout := DefaultTimeout; if req.TimeoutSeconds > 0 { timeout = req.TimeoutSeconds }
EffectiveTimeout(timeoutSeconds) ==
    IF timeoutSeconds > 0 THEN timeoutSeconds ELSE config.DefaultTimeout

\* The deadline of the context a step's command is bound to: Execute derives
\* it from the pipeline context with the effective timeout of the step;
\* executeStepWithStreaming binds the command to the pipeline context.
StepDeadline(op, pipelineDeadline, stepTimeoutSeconds) ==
    IF op = "ExecutePipeline"
    THEN WithTimeout(pipelineDeadline, EffectiveTimeout(stepTimeoutSeconds))
    ELSE pipelineDeadline

\* The call with the ExecuteResponse of its process, ended now.
Ended(tc, r) ==
    [tc EXCEPT !.pc = "done", !.EndedAt = now, !.ExitCode = r.ExitCode,
               !.Success = r.Success, !.Error = r.Error, !.TimedOut = r.TimedOut]

\* Execute or ExecuteStream up to cmd.Start: the timeout context is created,
\* the process started.
TimedExecute(op, timeoutSeconds) ==
    /\ timedCall.pc = "idle"
    /\ timedCall' = [timedCall EXCEPT !.Op = op, !.pc = "running",
                                      !.TimeoutSeconds = timeoutSeconds,
                                      !.StartedAt = now,
                                      !.Deadline = WithTimeout(NoDeadline,
                                                      EffectiveTimeout(timeoutSeconds))]
    /\ UNCHANGED <<executions, locking, inSend, healthResponse, building, now, config, serving>>

\* ExecutePipeline or ExecutePipelineStream up to its loop: the overall
\* timeout context is created when the request has a positive timeout.
TimedPipeline(op, timeoutSeconds, stepTimeoutSeconds) ==
    /\ timedCall.pc = "idle"
    /\ timedCall' = [timedCall EXCEPT !.Op = op, !.pc = "loop",
                                      !.TimeoutSeconds = timeoutSeconds,
                                      !.StepTimeoutSeconds = stepTimeoutSeconds,
                                      !.PipelineDeadline =
                                          IF timeoutSeconds > 0
                                          THEN WithTimeout(NoDeadline, timeoutSeconds)
                                          ELSE NoDeadline]
    /\ UNCHANGED <<executions, locking, inSend, healthResponse, building, now, config, serving>>

\* An iteration of the pipeline loop, some time into the pipeline: the loop
\* breaks when the pipeline context is done, else the step's process starts.
TimedStep ==
    /\ timedCall.pc = "loop"
    /\ timedCall' =
          IF DeadlineErr(timedCall.PipelineDeadline) # "nil"
          THEN [timedCall EXCEPT !.pc = "broken"]
          ELSE [timedCall EXCEPT !.pc = "running", !.StartedAt = now,
                                 !.Deadline = StepDeadline(timedCall.Op,
                                                           timedCall.PipelineDeadline,
                                                           timedCall.StepTimeoutSeconds)]
    /\ UNCHANGED <<executions, locking, inSend, healthResponse, building, now, config, serving>>

\* The process exits by itself before the deadline of its context.
TimedExit(code) ==
    /\ timedCall.pc = "running"
    /\ DeadlineErr(timedCall.Deadline) = "nil"
    /\ LET p == [State |-> "exited", ExitCode |-> code]
       IN  timedCall' = Ended(timedCall, Classify(WaitErr(p, "nil"), "nil"))
    /\ UNCHANGED <<executions, locking, inSend, healthResponse, building, now, config, serving>>

\* The deadline of the context the command is bound to has come: the process
\* is killed.
TimedKill ==
    /\ timedCall.pc = "running"
    /\ DeadlineErr(timedCall.Deadline) # "nil"
    /\ LET p == Kill([State |-> "running", KilledBy |-> "none"], "deadline")
           ctxErr == DeadlineErr(timedCall.Deadline)
       IN  timedCall' = Ended(timedCall, Classify(WaitErr(p, ctxErr), ctxErr))
    /\ UNCHANGED <<executions, locking, inSend, healthResponse, building, now, config, serving>>

\* A second passes; a process whose context is done is killed first.
Tick ==
    /\ now < MaxTime
    /\ ~(timedCall.pc = "running" /\ DeadlineErr(timedCall.Deadline) # "nil")
    /\ now' = now + 1
    /\ UNCHANGED <<executions, locking, inSend, healthResponse, building, config, timedCall, serving>>

\* --------------------------------------------------------------- shutdown
\* A graceful stop that waits for nothing.
NoInFlightUnchecked(rpc) == TRUE

\* GracefulStop blocks until all the pending RPCs are finished.
NoInFlight(rpc) == \A r \in Rpcs : rpc[r] # "running"

\* A call arrives at a serving server.
RpcStart(r) ==
    /\ grpcServer.State = "serving"
    /\ grpcServer.Rpc[r] = "none"
    /\ grpcServer' = [grpcServer EXCEPT !.Rpc[r] = "running"]
    /\ UNCHANGED <<executions, locking, inSend, healthResponse, building, timing, shutdown>>

\* The handler of a call returns.
RpcReturn(r) ==
    /\ grpcServer.Rpc[r] = "running"
    /\ grpcServer' = [grpcServer EXCEPT !.Rpc[r] = "finished"]
    /\ UNCHANGED <<executions, locking, inSend, healthResponse, building, timing, shutdown>>

\* <-quit: a SIGINT or SIGTERM arrives.  The stopper goroutine calls
\* GracefulStop, which stops the server from accepting calls, and the shutdown
\* goroutine enters its select, which arms the timer of time.After.
Signal ==
    /\ shutdown.pc = "waiting"
    /\ shutdown' = [shutdown EXCEPT !.pc = "selecting", !.Stopper = "stopping",
                                    !.Timer = "armed"]
    /\ grpcServer' = [grpcServer EXCEPT !.State = "draining"]
    /\ UNCHANGED <<executions, locking, inSend, healthResponse, building, timing>>

\* a.grpcServer.GracefulStop() returns: no call is in flight any more.
GracefulStop ==
    /\ shutdown.Stopper = "stopping"
    /\ NoInFlight(grpcServer.Rpc)
    /\ shutdown' = [shutdown EXCEPT !.Stopper = "returned"]
    /\ grpcServer' = [grpcServer EXCEPT !.State = "stopped"]
    /\ UNCHANGED <<executions, locking, inSend, healthResponse, building, timing>>

\* close(done); a shutdown goroutine parked in the select takes `case <-done`.
CloseDone ==
    /\ shutdown.Stopper = "returned"
    /\ shutdown' = [shutdown EXCEPT !.Stopper = "closed",
                                    !.pc = IF @ = "selecting" THEN "exited" ELSE @]
    /\ UNCHANGED <<executions, locking, inSend, healthResponse, building, timing, grpcServer>>

\* The timer of time.After fires; the shutdown goroutine parked in the select
\* takes that case.
TimerFires ==
    /\ shutdown.Timer = "armed"
    /\ shutdown.pc = "selecting"
    /\ shutdown' = [shutdown EXCEPT !.Timer = "fired", !.pc = "forcing",
                                    !.FiredAt = shutdown.Stopper]
    /\ UNCHANGED <<executions, locking, inSend, healthResponse, building, timing, grpcServer>>

\* a.grpcServer.Stop(): the connections are closed, the calls in flight are cut.
Stop ==
    /\ shutdown.pc = "forcing"
    /\ shutdown' = [shutdown EXCEPT !.pc = "exited", !.Forced = TRUE]
    /\ grpcServer' = [State |-> "stopped",
                      Rpc |-> [r \in Rpcs |-> IF grpcServer.Rpc[r] = "running"
                                              THEN "aborted" ELSE grpcServer.Rpc[r]]]
    /\ UNCHANGED <<executions, locking, inSend, healthResponse, building, timing>>

\* ------------------------------------------------------------------- Next
Next ==
    \/ \E c \in Calls, tool \in Tools, fail \in Failures : Execute(c, tool, fail)
    \/ \E c \in Calls, tool \in Tools, fail \in Failures : ExecuteStream(c, tool, fail)
    \/ \E c \in Calls : TrackProcess(c)
    \/ \E c \in Calls, ch \in Channels : WriteLine(c, ch)
    \/ \E c \in Calls, ch \in Channels : readOutput(c, ch)
    \/ \E c \in Calls, ch \in Channels, sendOk \in BOOLEAN : streamOutput(c, ch, sendOk)
    \/ \E c \in Calls : ReadersJoin(c)
    \/ \E c \in Calls : CmdWait(c)
    \/ \E c \in Calls : ExecuteReturn(c)
    \/ \E c \in Calls, sendOk \in BOOLEAN : ExecuteStreamReturn(c, sendOk)
    \/ \E c \in Calls, n \in 0 .. MaxSteps, t \in Timeouts : ExecutePipeline(c, n, t)
    \/ \E c \in Calls, st \in BuildSteps, fail \in Failures : ExecutePipelineStep(c, st, fail)
    \/ \E c \in Calls : ExecutePipelineStepReturn(c)
    \/ \E c \in Calls, n \in 0 .. MaxSteps, t \in Timeouts : ExecutePipelineStream(c, n, t)
    \/ \E c \in Calls, st \in BuildSteps, fail \in Failures, sendOk \in BOOLEAN :
          ExecutePipelineStreamStep(c, st, fail, sendOk)
    \/ \E c \in Calls : executeStepWithStreaming(c)
    \/ \E c \in Calls, sendOk \in BOOLEAN : StepCompleted(c, sendOk)
    \/ \E c \in Calls, sendOk \in BOOLEAN : PipelineCompleted(c, sendOk)
    \/ \E c \in Calls, code \in ExitCodes : ProcessExit(c, code)
    \/ \E c \in Calls : DeadlineExceeded(c)
    \/ \E c \in Calls : PipelineDeadlineExceeded(c)
    \/ \E id \in ProcessIDs : CancelProcess(id)

Spec == Init /\ [][Next]_vars

\* ------------------------------------------- executions observed by Health
\* Two concurrent single executions of silent tools.
HealthWorkloads ==
    { [c \in Calls |-> [Ops |-> IF c = "c1" THEN {"Execute", "ExecuteStream"}
                                              ELSE {"Execute"},
                        Lines |-> 0, Steps |-> 0]] }

HealthInit == ServerInit(HealthWorkloads) /\ RestInit

HealthNext ==
    \/ \E c \in Calls, tool \in Tools, fail \in Failures : Execute(c, tool, fail)
    \/ \E c \in Calls, tool \in Tools, fail \in Failures : ExecuteStream(c, tool, fail)
    \/ \E c \in Calls : TrackProcess(c)
    \/ \E c \in Calls : ReadersJoin(c)
    \/ \E c \in Calls : CmdWait(c)
    \/ \E c \in Calls : ExecuteReturn(c)
    \/ \E c \in Calls, sendOk \in BOOLEAN : ExecuteStreamReturn(c, sendOk)
    \/ \E c \in Calls, code \in ExitCodes : ProcessExit(c, code)
    \/ \E c \in Calls : DeadlineExceeded(c)
    \/ \E id \in ProcessIDs : CancelProcess(id)
    \/ Health

HealthSpec == HealthInit /\ [][HealthNext]_vars

\* No call arrives.
NoWorkload == [c \in Calls |-> [Ops |-> {}, Lines |-> 0, Steps |-> 0]]

\* ------------------------------------------------ one call and the clock
\* The configurations, with default timeouts of a few seconds.
Configs == [DefaultTimeout : {1, 2}]

\* TimeoutSeconds of a request or of a step: an int32, 0 when absent.
TimeoutSeconds == {-1, 0, 1, 3}

TimedInit ==
    /\ ServerInit({NoWorkload})
    /\ NoHealth
    /\ NoBuilding
    /\ Serving
    /\ Unlocked
    /\ NoSending
    /\ now = 0
    /\ config \in Configs
    /\ timedCall = IdleTimedCall

TimedNext ==
    \/ \E op \in {"Execute", "ExecuteStream"}, t \in TimeoutSeconds : TimedExecute(op, t)
    \/ \E op \in Variants, t \in TimeoutSeconds, st \in TimeoutSeconds :
          TimedPipeline(op, t, st)
    \/ TimedStep
    \/ \E code \in ExitCodes : TimedExit(code)
    \/ TimedKill
    \/ Tick

TimedSpec == TimedInit /\ [][TimedNext]_vars

\* ------------------------------------------------- the server shuts down
ShutdownInit ==
    /\ ServerInit({NoWorkload})
    /\ RestInit

ShutdownNext ==
    \/ \E r \in Rpcs : RpcStart(r)
    \/ \E r \in Rpcs : RpcReturn(r)
    \/ Signal
    \/ GracefulStop
    \/ CloseDone
    \/ TimerFires
    \/ Stop

\* The goroutines of the shutdown are scheduled and the timer fires; a call
\* in flight need not ever return.
ShutdownSpec ==
    /\ ShutdownInit
    /\ [][ShutdownNext]_vars
    /\ WF_vars(GracefulStop)
    /\ WF_vars(CloseDone)
    /\ WF_vars(TimerFires)
    /\ WF_vars(Stop)

\* --------------------------------------- the commands of a pipeline request
\* The environments of the server process.
Environs == { <<>>, <<Kv("A", "a")>>, <<Kv("A", "a"), Kv("B", "a")>> }

\* The env lists of the pipeline requests, and the spare capacity the decoded
\* slice may have.
PipelineEnvs ==
    { <<>>, <<Kv("A", "p")>>, <<Kv("B", "p")>>, <<Kv("A", "p"), Kv("B", "p")>>,
      <<Kv("A", "p"), Kv("A", "q")>> }
SpareCapacities == {0, 1}

\* The steps of the pipeline requests: directory and env list.
StepInputs ==
    [WorkDir : {"", "sub"}, Env : { <<>>, <<Kv("A", "s")>>, <<Kv("B", "s")>> }]

\* The pipeline requests: two steps.
PipelineRequests ==
    { [WorkspaceDir |-> ws,
       Env |-> [Array |-> env \o [i \in 1 .. spare |-> <<>>], Len |-> Len(env)],
       Steps |-> <<s1, s2>>] :
      ws \in {"", "ws"}, env \in PipelineEnvs, spare \in SpareCapacities,
      s1 \in StepInputs, s2 \in StepInputs }

BuildInit ==
    /\ ServerInit({NoWorkload})
    /\ NoHealth
    /\ NoTiming
    /\ Serving
    /\ Unlocked
    /\ NoSending
    /\ environ \in Environs
    /\ pipelineReq \in PipelineRequests
    /\ cmd = NoCommands

BuildNext == BuildExecuteRequest \/ BuildStepCommand

BuildSpec == BuildInit /\ [][BuildNext]_vars

\* ------------------------------------------- the lock of the registry
\* A Lock that does not wait for anybody.
CanLockUnchecked == TRUE

\* s.mu.Lock() returns: no writer and no reader holds the RWMutex.
CanLock == mu.writer = "none" /\ mu.readers = {}

\* s.mu.RLock() returns: no writer holds the RWMutex.
CanRLock == mu.writer = "none"

\* The ids of the executions, fresh per execution.
ExecutionIDs == {NewProcessID(c, 0) : c \in Calls}

\* The lock and the map operation each job performs, in order.
FirstPc(job) == IF job = "Execute" THEN "build" ELSE "rlock"

\* The statement a reading job executes under the read lock.
ReadPc(job) ==
    CASE job = "CancelProcess" -> "lookup"
      [] job = "Health" -> "len"
      [] OTHER -> "cap"

\* A goroutine arrives with its job: an execution whose process has started
\* and has a fresh id, or a request of one of the reading operations.
Arrive(w, job, id) ==
    /\ worker[w].pc = "idle"
    /\ job = "Execute" => /\ id \in ExecutionIDs
                          /\ \A v \in Workers : worker[v].Job = "Execute" => worker[v].ID # id
    /\ job \in {"GetRunningProcesses", "Health"} => id = UnknownID
    /\ worker' = [worker EXCEPT ![w] = [@ EXCEPT !.Job = job, !.pc = FirstPc(job), !.ID = id]]
    /\ UNCHANGED <<executions, mu, inSend, healthResponse, building, timing, serving>>

\* runningProc := &RunningProcess{ID: ..., Tool: ..., Cancel: cancel, ...}
NewRunningProcess(w, tool) ==
    /\ worker[w].pc = "build"
    /\ worker' = [worker EXCEPT ![w] =
                     [@ EXCEPT !.pc = "lock",
                               !.Handle = RunningProcess(worker[w].ID, tool,
                                                         worker[w].ID[1])]]
    /\ UNCHANGED <<executions, mu, inSend, healthResponse, building, timing, serving>>

\* s.mu.Lock(), before the insert and in the deferred function before the delete.
Lock(w) ==
    /\ worker[w].pc \in {"lock", "relock"}
    /\ CanLock
    /\ mu' = [mu EXCEPT !.writer = w]
    /\ worker' = [worker EXCEPT ![w].pc = IF @ = "lock" THEN "insert" ELSE "delete"]
    /\ UNCHANGED <<executions, inSend, healthResponse, building, timing, serving>>

\* s.running[processID] = runningProc
RegistryInsert(w) ==
    /\ worker[w].pc = "insert"
    /\ running' = Put(running, worker[w].ID, worker[w].Handle)
    /\ worker' = [worker EXCEPT ![w].pc = "unlock"]
    /\ UNCHANGED <<call, ctx, process, result, response, steps, io, cancelResponse>>
    /\ UNCHANGED <<mu, inSend, healthResponse, building, timing, serving>>

\* delete(s.running, processID)
RegistryDelete(w) ==
    /\ worker[w].pc = "delete"
    /\ running' = Delete(running, worker[w].ID)
    /\ worker' = [worker EXCEPT ![w].pc = "unlocklast"]
    /\ UNCHANGED <<call, ctx, process, result, response, steps, io, cancelResponse>>
    /\ UNCHANGED <<mu, inSend, healthResponse, building, timing, serving>>

\* s.mu.Unlock(): after the insert the execution goes on to its readers and
\* to cmd.Wait, after the delete it has returned.
Unlock(w) ==
    /\ worker[w].pc \in {"unlock", "unlocklast"}
    /\ mu' = [mu EXCEPT !.writer = "none"]
    /\ worker' = [worker EXCEPT ![w].pc = IF @ = "unlock" THEN "executing" ELSE "done"]
    /\ UNCHANGED <<executions, inSend, healthResponse, building, timing, serving>>

\* The execution returns: its deferred function runs.
DeferredDelete(w) ==
    /\ worker[w].pc = "executing"
    /\ worker' = [worker EXCEPT ![w].pc = "relock"]
    /\ UNCHANGED <<executions, mu, inSend, healthResponse, building, timing, serving>>

\* s.mu.RLock()
RLock(w) ==
    /\ worker[w].pc = "rlock"
    /\ CanRLock
    /\ mu' = [mu EXCEPT !.readers = @ \cup {w}]
    /\ worker' = [worker EXCEPT ![w].pc = ReadPc(worker[w].Job)]
    /\ UNCHANGED <<executions, inSend, healthResponse, building, timing, serving>>

\* proc, exists := s.running[req.ProcessId]
Lookup(w) ==
    /\ worker[w].pc = "lookup"
    /\ worker' = [worker EXCEPT ![w] =
                     [@ EXCEPT !.pc = "runlock",
                               !.Seen = IF worker[w].ID \in DOMAIN running
                                        THEN [Len |-> 1, Handles |-> {running[worker[w].ID]}]
                                        ELSE [Len |-> 0, Handles |-> {}]]]
    /\ UNCHANGED <<executions, mu, inSend, healthResponse, building, timing, serving>>

\* len(s.running): the count of Health, the capacity of the snapshot of
\* GetRunningProcesses.
CountRunning(w) ==
    /\ worker[w].pc \in {"len", "cap"}
    /\ worker' = [worker EXCEPT ![w] =
                     [@ EXCEPT !.pc = IF @ = "len" THEN "runlock" ELSE "range",
                               !.Seen = [Len |-> Cardinality(DOMAIN running),
                                         Handles |-> {}]]]
    /\ UNCHANGED <<executions, mu, inSend, healthResponse, building, timing, serving>>

\* for _, proc := range s.running { processes = append(processes, ...) }
RangeRunning(w) ==
    /\ worker[w].pc = "range"
    /\ worker' = [worker EXCEPT ![w] =
                     [@ EXCEPT !.pc = "runlock",
                               !.Seen = [@ EXCEPT !.Handles =
                                             {running[id] : id \in DOMAIN running}]]]
    /\ UNCHANGED <<executions, mu, inSend, healthResponse, building, timing, serving>>

\* s.mu.RUnlock(), deferred to the return in GetRunningProcesses.
RUnlock(w) ==
    /\ worker[w].pc = "runlock"
    /\ mu' = [mu EXCEPT !.readers = @ \ {w}]
    /\ worker' = [worker EXCEPT ![w].pc = "done"]
    /\ UNCHANGED <<executions, inSend, healthResponse, building, timing, serving>>

LockInit == ServerInit({NoWorkload}) /\ RestInit

LockNext ==
    \/ \E w \in Workers, job \in Jobs, id \in ProcessIDs : Arrive(w, job, id)
    \/ \E w \in Workers, tool \in AllowedTools : NewRunningProcess(w, tool)
    \/ \E w \in Workers : Lock(w)
    \/ \E w \in Workers : RegistryInsert(w)
    \/ \E w \in Workers : Unlock(w)
    \/ \E w \in Workers : DeferredDelete(w)
    \/ \E w \in Workers : RegistryDelete(w)
    \/ \E w \in Workers : RLock(w)
    \/ \E w \in Workers : Lookup(w)
    \/ \E w \in Workers : CountRunning(w)
    \/ \E w \in Workers : RangeRunning(w)
    \/ \E w \in Workers : RUnlock(w)

LockSpec == LockInit /\ [][LockNext]_vars

\* --------------------------- executions whose process may never exit
\* One call of any operation, of silent tools, a pipeline having one step.
LiveWorkloads ==
    { [c \in Calls |-> [Ops |-> IF c = "c1" THEN Operations ELSE {},
                        Lines |-> 0, Steps |-> 1]] }

LiveInit == ServerInit(LiveWorkloads) /\ RestInit

\* A request arrives, a process exits by itself, a client cancels: none of
\* these has to happen.
LiveEnvironment ==
    \/ \E c \in Calls, tool \in Tools, fail \in Failures : Execute(c, tool, fail)
    \/ \E c \in Calls, tool \in Tools, fail \in Failures : ExecuteStream(c, tool, fail)
    \/ \E c \in Calls, n \in 0 .. 1, t \in Timeouts : ExecutePipeline(c, n, t)
    \/ \E c \in Calls, n \in 0 .. 1, t \in Timeouts : ExecutePipelineStream(c, n, t)
    \/ \E c \in Calls, code \in ExitCodes : ProcessExit(c, code)
    \/ \E id \in ProcessIDs : CancelProcess(id)

\* The steps of the handlers' goroutines: each runs when it can.
LiveHandlers ==
    \/ \E c \in Calls : TrackProcess(c)
    \/ \E c \in Calls : ReadersJoin(c)
    \/ \E c \in Calls : CmdWait(c)
    \/ \E c \in Calls : ExecuteReturn(c)
    \/ \E c \in Calls, sendOk \in BOOLEAN : ExecuteStreamReturn(c, sendOk)
    \/ \E c \in Calls, st \in BuildSteps, fail \in Failures : ExecutePipelineStep(c, st, fail)
    \/ \E c \in Calls : ExecutePipelineStepReturn(c)
    \/ \E c \in Calls, st \in BuildSteps, fail \in Failures, sendOk \in BOOLEAN :
          ExecutePipelineStreamStep(c, st, fail, sendOk)
    \/ \E c \in Calls : executeStepWithStreaming(c)
    \/ \E c \in Calls, sendOk \in BOOLEAN : StepCompleted(c, sendOk)
    \/ \E c \in Calls, sendOk \in BOOLEAN : PipelineCompleted(c, sendOk)

\* The timers of the contexts created by context.WithTimeout: each fires.
LiveTimers ==
    \/ \E c \in Calls : DeadlineExceeded(c)
    \/ \E c \in Calls : PipelineDeadlineExceeded(c)

LiveNext == LiveEnvironment \/ LiveHandlers \/ LiveTimers

LiveSpec ==
    /\ LiveInit
    /\ [][LiveNext]_vars
    /\ WF_vars(LiveHandlers)
    /\ WF_vars(LiveTimers)

\* ------------------------------------ the two readers and stream.Send
\* The scanner loop of streamOutput and streamPipelineOutput up to the call of
\* stream.Send: the line is scanned and written to the buffer, the reader
\* enters Send.  Nothing is held while it does.
streamOutputWrite(c, ch) ==
    /\ ReadersStarted(c)
    /\ call[c].Op \in {"ExecuteStream", "ExecutePipelineStream"}
    /\ ~reader[c][ch].Returned
    /\ <<c, ch>> \notin inSend
    /\ Scanned(c, ch) < output[c][ch]
    /\ reader' = [reader EXCEPT ![c][ch].Buf =
                     WriteString(@, Line(ch, Scanned(c, ch) + 1))]
    /\ inSend' = inSend \cup {<<c, ch>>}
    /\ UNCHANGED <<running, call, ctx, process, result, response, steps,
                   output, stream, cancelResponse>>
    /\ UNCHANGED <<healthResponse, building, timing, serving, locking>>

\* stream.Send returns to the reader: the line was delivered, or the reader
\* leaves its loop.
streamOutputSend(c, ch, sendOk) ==
    /\ <<c, ch>> \in inSend
    /\ LET msg == Message(LineEvent(call[c].Op, ch), StepTag(c), Line(ch, Scanned(c, ch)))
       IN  stream' = [stream EXCEPT ![c] = Send(@, msg, sendOk)]
    /\ reader' = [reader EXCEPT ![c][ch].Returned = ~sendOk]
    /\ inSend' = inSend \ {<<c, ch>>}
    /\ UNCHANGED <<running, call, ctx, process, result, response, steps,
                   output, cancelResponse>>
    /\ UNCHANGED <<healthResponse, building, timing, serving, locking>>

\* One streaming call, a single execution or a pipeline of one step, of a
\* tool that writes one line per pipe.
SendWorkloads ==
    { [c \in Calls |-> [Ops |-> IF c = "c1" THEN {"ExecuteStream", "ExecutePipelineStream"}
                                              ELSE {},
                        Lines |-> 1, Steps |-> 1]] }

SendInit == ServerInit(SendWorkloads) /\ RestInit

SendNext ==
    \/ \E c \in Calls, tool \in Tools, fail \in Failures : ExecuteStream(c, tool, fail)
    \/ \E c \in Calls, n \in 0 .. 1, t \in Timeouts : ExecutePipelineStream(c, n, t)
    \/ \E c \in Calls, st \in BuildSteps, fail \in Failures, sendOk \in BOOLEAN :
          ExecutePipelineStreamStep(c, st, fail, sendOk)
    \/ \E c \in Calls : TrackProcess(c)
    \/ \E c \in Calls, ch \in Channels : WriteLine(c, ch)
    \/ \E c \in Calls, ch \in Channels : streamOutputWrite(c, ch)
    \/ \E c \in Calls, ch \in Channels, sendOk \in BOOLEAN : streamOutputSend(c, ch, sendOk)
    \/ \E c \in Calls : ReadersJoin(c)
    \/ \E c \in Calls : CmdWait(c)
    \/ \E c \in Calls, sendOk \in BOOLEAN : ExecuteStreamReturn(c, sendOk)
    \/ \E c \in Calls : executeStepWithStreaming(c)
    \/ \E c \in Calls, sendOk \in BOOLEAN : StepCompleted(c, sendOk)
    \/ \E c \in Calls, sendOk \in BOOLEAN : PipelineCompleted(c, sendOk)
    \/ \E c \in Calls, code \in ExitCodes : ProcessExit(c, code)
    \/ \E c \in Calls : DeadlineExceeded(c)
    \/ \E c \in Calls : PipelineDeadlineExceeded(c)

SendSpec == SendInit /\ [][SendNext]_vars

\* --------------------------------- one streaming pipeline of several steps
\* One ExecutePipelineStream call of up to MaxSteps steps, each of a tool that
\* writes at most one line per pipe.
StreamWorkloads ==
    { [c \in Calls |-> [Ops |-> IF c = "c1" THEN {"ExecutePipelineStream"} ELSE {},
                        Lines |-> 1, Steps |-> MaxSteps]] }

\* The steps of that pipeline: of the allowlisted tool, stopping or going on
\* after a failure.
StreamSteps == {st \in BuildSteps : st.Tool = Git}

StreamInit == ServerInit(StreamWorkloads) /\ RestInit

StreamNext ==
    \/ \E c \in Calls, n \in 0 .. MaxSteps, t \in Timeouts : ExecutePipelineStream(c, n, t)
    \/ \E c \in Calls, st \in StreamSteps, fail \in Failures, sendOk \in BOOLEAN :
          ExecutePipelineStreamStep(c, st, fail, sendOk)
    \/ \E c \in Calls : TrackProcess(c)
    \/ \E c \in Calls, ch \in Channels : WriteLine(c, ch)
    \/ \E c \in Calls, ch \in Channels, sendOk \in BOOLEAN : streamOutput(c, ch, sendOk)
    \/ \E c \in Calls : ReadersJoin(c)
    \/ \E c \in Calls : CmdWait(c)
    \/ \E c \in Calls : executeStepWithStreaming(c)
    \/ \E c \in Calls, sendOk \in BOOLEAN : StepCompleted(c, sendOk)
    \/ \E c \in Calls, sendOk \in BOOLEAN : PipelineCompleted(c, sendOk)
    \/ \E c \in Calls, code \in ExitCodes : ProcessExit(c, code)
    \/ \E c \in Calls : PipelineDeadlineExceeded(c)

StreamSpec == StreamInit /\ [][StreamNext]_vars

TypeOK ==
    /\ DOMAIN running \subseteq ProcessIDs
    /\ \A c \in Calls : ctx[c].exec \in CtxErrs /\ ctx[c].pipeline \in CtxErrs
    /\ \A c \in Calls, ch \in Channels :
          output[c][ch] \in 0 .. MaxLines /\ Scanned(c, ch) <= output[c][ch]
    /\ cancelResponse.Success \in BOOLEAN

\* ---------------------------------------------------------------- claims
\* The result of an execution ended by its deadline.
TimeoutShaped(r) ==
    /\ r.TimedOut = TRUE
    /\ r.ExitCode = -1
    /\ r.Success = FALSE
    /\ r.Error = "command timed out"

\* Call c is inside an execution whose handle has been inserted and not deleted.
Tracked(c) == call[c].pc \in {"tracked", "joined", "reaped"}

\* The handles of the registry that belong to call c.
HandlesOf(c) == {id \in DOMAIN running : id[1] = c}

IsPipeline(c) == call[c].Op \in {"ExecutePipeline", "ExecutePipelineStream"}

\* C1: every process spawned by any of the four operations, and every handle
\* in the registry, has a tool that is a case-insensitive member of the allowlist.
C1_SpawnedToolsAllowed ==
    /\ \A c \in Calls : process[c].State # "none" => IsToolAllowed(process[c].Tool)
    /\ \A id \in DOMAIN running : IsToolAllowed(running[id].Tool)

\* C2: Execute and ExecuteStream called with a tool that is not allowlisted
\* return the policy error at once: no process is started and the registry is
\* what it was before the call.
C2_DisallowedToolRejected ==
    [][\A c \in Calls :
          (/\ call[c].pc = "idle"
           /\ call'[c].Op \in {"Execute", "ExecuteStream"}
           /\ ~IsToolAllowed(call'[c].Tool))
          => /\ call'[c].pc = "returned"
             /\ call'[c].Err = "policy"
             /\ process'[c].State = "none"
             /\ process' = process
             /\ running' = running]_vars

\* A disallowed tool was rejected while another call had its process tracked.
C2_Witness ==
    \E c \in Calls :
        /\ call[c].Err = "policy"
        /\ ~IsToolAllowed(call[c].Tool)
        /\ DOMAIN running # {}

\* C3: when an execution has returned, with any outcome, the registry holds no
\* entry for it, every entry left belongs to an execution still in flight, and
\* its handle was deleted exactly as often as it was inserted, at most once;
\* while the execution is in flight its handle has not been deleted.
C3_RegistryClearedOnReturn ==
    \A c \in Calls :
        /\ ~Tracked(c) => HandlesOf(c) = {}
        /\ call[c].pc \notin ExecPcs
              => call[c].Removals = call[c].Inserts /\ call[c].Inserts \in {0, 1}
        /\ call[c].pc \in ExecPcs => call[c].Removals = 0

\* A timed-out execution has returned and deleted its handle once, while the
\* handle of another call stays in the registry.
C3_Witness ==
    \E c \in Calls :
        /\ call[c].pc = "returned"
        /\ call[c].Removals = 1
        /\ result[c].TimedOut
        /\ DOMAIN running # {}

\* C4 as stated: a handle is in the registry if and only if its process has
\* been started and has not yet been reaped.
C4_TrackedIffStartedNotReaped ==
    \A c \in Calls :
        (CurrentID(c) \in DOMAIN running)
            <=> process[c].State \in {"running", "exited", "killed"}

\* C4 amended: the handle of an execution is in the registry exactly from the
\* insert that follows the spawn until the deferred delete at its return; a
\* tracked handle belongs to a started process and carries its id and tool;
\* GetRunningProcesses lists the id in that span and never after the return.
C4_TrackedFromInsertToReturn ==
    \A c \in Calls :
        /\ Tracked(c) <=> CurrentID(c) \in GetRunningProcesses
        /\ HandlesOf(c) \subseteq {CurrentID(c)}
        /\ Tracked(c) => /\ process[c].State # "none"
                         /\ running[CurrentID(c)].ID = CurrentID(c)
                         /\ running[CurrentID(c)].Tool = process[c].Tool

\* The process has been reaped and its handle is still listed.
C4_Witness ==
    \E c \in Calls :
        /\ process[c].State = "reaped"
        /\ CurrentID(c) \in GetRunningProcesses

\* C5: in both pipeline variants, once the result of the step at index i is
\* appended with continueOnError unset and success false, the pipeline has
\* success=false, failedStep = that step's name, completedSteps = i+1, and no
\* later step is started.
C5_FailedStepStopsPipeline ==
    \A c \in Calls :
        (IsPipeline(c) /\ call[c].Err # "send") =>
            \A k \in 1 .. Len(response[c].StepResults) :
                (~steps[c][k] /\ ~response[c].StepResults[k].Success) =>
                    /\ response[c].Success = FALSE
                    /\ response[c].FailedStep = StepName(k - 1)
                    /\ response[c].CompletedSteps = k
                    /\ Len(response[c].StepResults) = k
                    /\ call[c].Index = k - 1
                    /\ call[c].pc \in {"finish", "returned"}

\* A pipeline of two steps has returned after its first step failed.
C5_Witness ==
    \E c \in Calls :
        /\ IsPipeline(c)
        /\ call[c].pc = "returned"
        /\ call[c].Err = "nil"
        /\ call[c].TotalSteps = 2
        /\ response[c].CompletedSteps = 1
        /\ ~response[c].StepResults[1].Success
        /\ ~steps[c][1]
        /\ response[c].FailedStep = "step1"

\* C6: in both pipeline variants, when every step that failed has
\* continueOnError set (and the deadline did not stop the pipeline), the
\* pipeline keeps success=true and an empty failedStep, and a returned pipeline
\* has run all its steps.
C6_ContinueOnErrorKeepsSuccess ==
    \A c \in Calls :
        (/\ IsPipeline(c)
         /\ call[c].Err # "send"
         /\ ctx[c].pipeline # "DeadlineExceeded"
         /\ \A k \in 1 .. Len(response[c].StepResults) :
               ~response[c].StepResults[k].Success => steps[c][k])
        => /\ response[c].Success = TRUE
           /\ response[c].FailedStep = ""
           /\ call[c].pc = "returned" => response[c].CompletedSteps = call[c].TotalSteps

\* C7: at every point of every pipeline run completedSteps equals the number
\* of StepResults appended so far, and completedSteps never decreases.
C7_CompletedStepsCountsResults ==
    /\ [](\A c \in Calls : response[c].CompletedSteps = Len(response[c].StepResults))
    /\ [][\A c \in Calls : response'[c].CompletedSteps >= response[c].CompletedSteps]_vars

\* Two step results have been appended.
C7_Witness ==
    \E c \in Calls :
        /\ IsPipeline(c)
        /\ response[c].CompletedSteps = 2
        /\ Len(response[c].StepResults) = 2

\* C8: an execution (of an allowlisted tool) whose process was still running
\* when its deadline elapsed, and was killed by it, returns a timeout-shaped
\* result.
C8_DeadlineGivesTimedOut ==
    \A c \in Calls :
        (/\ call[c].pc = "reaped"
         /\ IsToolAllowed(process[c].Tool)
         /\ process[c].KilledBy = "deadline")
            => TimeoutShaped(result[c])

\* C9: an execution whose process was killed by a CancelProcess that answered
\* success returns the same timeout-shaped result as a deadline expiry.
C9_CancelGivesTimeoutShape ==
    \A c \in Calls :
        (call[c].pc = "reaped" /\ process[c].Cancelled /\ process[c].KilledBy = "cancel")
            => TimeoutShaped(result[c])

\* C10: for every kind of tracked process (of an allowlisted tool), once
\* CancelProcess has answered success for its id the process is terminated: it
\* is not left running until it exits by itself or a deadline fires.
C10_CancelTerminatesProcess ==
    \A c \in Calls :
        (process[c].Cancelled /\ IsToolAllowed(process[c].Tool))
            => process[c].State # "running"

\* The CancelResponse of a request whose id is not in the registry.
NotFound == [Success |-> FALSE, Message |-> "not found"]

\* C11: CancelProcess with an id that is not in the registry answers the
\* structured response success=false with the not-found message (the handler
\* has no error return on this path); it cancels no context, kills no process
\* and leaves the registry and every execution as they were.
C11_UnknownIdNotFound ==
    [][\A id \in ProcessIDs :
          (id \notin DOMAIN running /\ CancelProcess(id))
          => /\ cancelResponse' = NotFound
             /\ UNCHANGED <<running, call, ctx, process, result, response, steps, io>>]_vars

\* An unknown id was answered not-found while a tracked process keeps running
\* under a live context.
C11_Witness ==
    /\ cancelResponse = NotFound
    /\ \E c \in Calls :
          /\ Tracked(c)
          /\ process[c].State = "running"
          /\ ~process[c].Cancelled
          /\ ctx[c].exec = "nil"

\* The set-ups that end without a process.
FailedSetups == {"policy", "pipe", "start"}

\* C12: when cmd.Start fails for an allowlisted tool, Execute and ExecuteStream
\* return normally (no error) a result with exitCode=-1, success=false and the
\* failure message as error.
C12_SpawnFailureReturnsResult ==
    \A c \in Calls :
        (/\ call[c].Op \in {"Execute", "ExecuteStream"}
         /\ call[c].pc = "returned"
         /\ IsToolAllowed(call[c].Tool)
         /\ call[c].Setup = "start")
        => /\ call[c].Err = "nil"
           /\ result[c].ExitCode = -1
           /\ result[c].Success = FALSE
           /\ result[c].Error = SetupMessage("start")

\* C13: ExecutePipeline never returns an error; in both variants a step whose
\* set-up failed (disallowed tool, pipe or start failure) has, once appended, a
\* StepResult with its name and index whose result is unsuccessful and carries
\* the message of the failure.
C13_PipelineEncodesSetupFailure ==
    \A c \in Calls :
        /\ call[c].Op = "ExecutePipeline" => call[c].Err = "nil"
        /\ (IsPipeline(c) /\ call[c].Setup \in FailedSetups /\ call[c].pc # "stepdone")
              => LET n == Len(response[c].StepResults) IN
                 /\ n >= 1
                 /\ response[c].StepResults[n] =
                       [Name |-> StepName(n - 1), StepIndex |-> n - 1, Success |-> FALSE,
                        Error |-> SetupMessage(call[c].Setup)]
                 /\ result[c] = SynthesizedResult(SetupMessage(call[c].Setup))

\* ExecutePipeline has returned its response after a first step of a disallowed
\* tool and a second step whose start failed.
C13_Witness ==
    \E c \in Calls :
        /\ call[c].Op = "ExecutePipeline"
        /\ call[c].pc = "returned"
        /\ call[c].Err = "nil"
        /\ Len(response[c].StepResults) = 2
        /\ response[c].StepResults[1].Error = SetupMessage("policy")
        /\ response[c].StepResults[2].Error = SetupMessage("start")

\* C14: in both pipeline variants, when the shared deadline has already elapsed
\* at the head of the iteration of step i, the step is not run: no process is
\* spawned, nothing is inserted, no StepResult is appended, completedSteps is
\* unchanged and no step-started event is sent; the pipeline gets success=false
\* and failedStep = the name of step i, and the loop is left, whatever the
\* continueOnError flags are.
C14_ElapsedDeadlineSkipsStep ==
    [][\A c \in Calls :
          (/\ IsPipeline(c)
           /\ call[c].pc = "loop"
           /\ ctx[c].pipeline = "DeadlineExceeded"
           /\ call'[c] # call[c])
          => /\ call'[c].pc \in {"finish", "returned"}
             /\ call'[c].Index = call[c].Index
             /\ response'[c] = [response[c] EXCEPT !.Success = FALSE,
                                                   !.FailedStep = StepName(call[c].Index)]
             /\ response'[c].CompletedSteps = call[c].Index
             /\ UNCHANGED <<running, process, steps, stream>>]_vars

\* The deadline elapsed after a successful first step: the pipeline has returned
\* with failedStep naming the second step, which was never read or run.
C14_Witness ==
    \E c \in Calls :
        /\ IsPipeline(c)
        /\ call[c].pc = "returned"
        /\ call[c].TotalSteps = 2
        /\ ctx[c].pipeline = "DeadlineExceeded"
        /\ Len(steps[c]) = 1
        /\ response[c].StepResults[1].Success
        /\ response[c].CompletedSteps = 1
        /\ response[c].Success = FALSE
        /\ response[c].FailedStep = StepName(1)

\* C15: the deadline of a pipeline exists only when the request has an overall
\* timeout, is shared by all steps and is never reset: once it has elapsed it
\* stays elapsed for the rest of the run, the context of the step in progress
\* is done too, and no process of the pipeline is running, in both variants.
C15_SharedDeadline ==
    /\ [](\A c \in Calls :
            (IsPipeline(c) /\ ctx[c].pipeline = "DeadlineExceeded")
            => /\ call[c].TimeoutSeconds > 0
               /\ process[c].State # "running"
               /\ call[c].pc \in ExecPcs => ctx[c].exec # "nil")
    /\ [][\A c \in Calls :
            ctx[c].pipeline = "DeadlineExceeded" => ctx'[c].pipeline = "DeadlineExceeded"]_vars

\* The shared deadline elapsed while the process of the second step was
\* running, and killed it.
C15_Witness ==
    \E c \in Calls :
        /\ IsPipeline(c)
        /\ call[c].Index = 1
        /\ ctx[c].pipeline = "DeadlineExceeded"
        /\ process[c].State = "killed"
        /\ process[c].KilledBy = "deadline"

\* The error messages of the set-up failures.
SetupMessages == {SetupMessage(o) : o \in FailedSetups}

\* The loop of ExecutePipeline from step i on, replayed over the steps call c
\* has executed: each step behaves as recorded in its StepResult, and s.Execute
\* returned an error for the steps whose set-up failed.
RECURSIVE UnaryLoop(_, _, _)
UnaryLoop(resp, i, c) ==
    IF i = Len(response[c].StepResults) THEN resp
    ELSE LET r == response[c].StepResults[i + 1]
             coe == steps[c][i + 1]
             next == AfterExecute(resp, i, coe, r, r.Error \in SetupMessages)
         IN  IF StopAfterStep(next, coe) THEN next ELSE UnaryLoop(next, i + 1, c)

\* C16: the pipeline-completed result of ExecutePipelineStream equals the result
\* ExecutePipeline computes for the same request and the same behaviour of each
\* step, in success, failedStep, completedSteps, totalSteps and the StepResults
\* (steps of allowlisted tools, pipeline not stopped by its deadline).
C16_StreamResultEqualsUnary ==
    \A c \in Calls :
        (/\ call[c].Op = "ExecutePipelineStream"
         /\ call[c].pc = "returned"
         /\ call[c].Err = "nil"
         /\ ctx[c].pipeline # "DeadlineExceeded")
        => response[c] = UnaryLoop(NewResponse(call[c].TotalSteps), 0, c)

\* The lines of one pipe delivered on the response stream of call c, in the
\* order of their delivery.
RECURSIVE DeliveredLines(_, _)
DeliveredLines(msgs, event) ==
    IF msgs = <<>> THEN <<>>
    ELSE IF Head(msgs).Event = event
    THEN <<Head(msgs).Line>> \o DeliveredLines(Tail(msgs), event)
    ELSE DeliveredLines(Tail(msgs), event)

\* The lines call c has delivered from pipe ch.
Delivered(c, ch) == DeliveredLines(stream[c], LineEvent(call[c].Op, ch))

\* The concatenation of lines, each followed by a newline.
RECURSIVE Concat(_)
Concat(lines) ==
    IF lines = <<>> THEN <<>> ELSE <<Head(lines), "\n">> \o Concat(Tail(lines))

\* The first n lines the process writes to pipe ch.
Produced(ch, n) == [k \in 1 .. n |-> Line(ch, k)]

IsPrefix(s, t) == Len(s) <= Len(t) /\ s = SubSeq(t, 1, Len(s))

\* The captured text of pipe ch in an ExecuteResponse.
Captured(r, ch) == IF ch = "stdout" THEN r.Stdout ELSE r.Stderr

\* Call c is a streaming execution whose readers have both finished.
StreamJoined(c) ==
    /\ call[c].Op \in {"ExecuteStream", "ExecutePipelineStream"}
    /\ call[c].pc \in {"joined", "reaped"}

\* C17: a failed delivery in one reader only stops its forwarding: when the
\* readers have joined, the buffer of each reader holds every line the process
\* wrote to its pipe, those written after the failed delivery included.
C17_SendFailureKeepsAccumulating ==
    \A c \in Calls, ch \in Channels :
        StreamJoined(c) => reader[c][ch].Buf = Concat(Produced(ch, output[c][ch]))

\* C18 as stated: the stdout (stderr) text of the final result of a streaming
\* run equals the concatenation, each line followed by a newline, of exactly
\* the stdout (stderr) lines delivered during the run.
C18_BufferEqualsDelivered ==
    \A c \in Calls, ch \in Channels :
        (call[c].Op = "ExecuteStream" /\ call[c].pc = "reaped")
        => Captured(result[c], ch) = Concat(Delivered(c, ch))

\* C18 amended: the delivered lines of a pipe, each followed by a newline, are
\* a prefix of the captured text of the final result, which holds at most one
\* more line; it holds exactly one more when the delivery of that line failed,
\* and equals the delivered lines when no delivery failed.
C18_DeliveredPrefixOfBuffer ==
    \A c \in Calls, ch \in Channels :
        (call[c].Op = "ExecuteStream" /\ call[c].pc = "reaped")
        => LET d == Concat(Delivered(c, ch))
               b == Captured(result[c], ch)
           IN  /\ IsPrefix(d, b)
               /\ Len(b) <= Len(d) + 2
               /\ b = d <=> ~reader[c][ch].Returned

\* A streaming run delivered two stdout lines and one stderr line, all captured
\* in its result.
C18_Witness ==
    \E c \in Calls :
        /\ call[c].Op = "ExecuteStream"
        /\ call[c].pc = "reaped"
        /\ result[c].Stdout = <<"out1", "\n", "out2", "\n">>
        /\ result[c].Stderr = <<"err1", "\n">>
        /\ Len(stream[c]) = 3

\* C19: the lines of each pipe are delivered in the order the process wrote
\* them, without gap, reordering or duplication: the delivered lines of a pipe
\* are a prefix of the lines written to it.  Nothing orders the lines of one
\* pipe against those of the other.
C19_PerChannelOrder ==
    \A c \in Calls, ch \in Channels :
        (call[c].Op = "ExecuteStream" /\ call[c].pc \in ExecPcs)
        => IsPrefix(Delivered(c, ch), Produced(ch, output[c][ch]))

\* A stderr line was delivered between the two stdout lines.
C19_Witness ==
    \E c \in Calls :
        /\ call[c].Op = "ExecuteStream"
        /\ call[c].pc \in ExecPcs
        /\ Len(stream[c]) = 3
        /\ stream[c][1] = Message("stdout_line", 0, "out1")
        /\ stream[c][2] = Message("stderr_line", 0, "err1")
        /\ stream[c][3] = Message("stdout_line", 0, "out2")

\* C20: the steps of a pipeline run one after another: while the execution of
\* the step at index i is in progress the results of exactly the i steps before
\* it have been appended; a pipeline has a process only inside that execution
\* and at most one handle in the registry, the handle of that execution.
C20_StepsSequential ==
    \A c \in Calls :
        IsPipeline(c)
        => /\ call[c].pc \in ExecPcs \cup {"stepdone"}
                 => /\ Len(response[c].StepResults) = call[c].Index
                    /\ response[c].CompletedSteps = call[c].Index
           /\ process[c].State # "none" => call[c].pc \in ExecPcs
           /\ Cardinality(HandlesOf(c)) <= 1
           /\ HandlesOf(c) \subseteq {CurrentID(c)}

\* The process of the second step is tracked after the result of the first
\* step was appended.
C20_Witness ==
    \E c \in Calls :
        /\ IsPipeline(c)
        /\ call[c].Index = 1
        /\ process[c].State = "running"
        /\ HandlesOf(c) = {NewProcessID(c, 1)}
        /\ Len(response[c].StepResults) = 1


\* C21: at every point of a pipeline run failedStep is empty exactly when
\* success is true, and failedStep is written at most once: once it names a
\* step, no later step overwrites it.
C21_FailedStepWrittenOnce ==
    /\ [](\A c \in Calls :
             IsPipeline(c) => (response[c].FailedStep = "" <=> response[c].Success))
    /\ [][\A c \in Calls :
             (IsPipeline(c) /\ response[c].FailedStep # "")
             => response'[c].FailedStep = response[c].FailedStep]_vars


\* C22: a pipeline with an empty step list finishes at once with success=true,
\* totalSteps=0, completedSteps=0, no StepResults and an empty failedStep; it
\* spawns no process and inserts no handle, and the streaming variant sends
\* only the pipeline-completed event.
C22_EmptyPipelineSucceeds ==
    \A c \in Calls :
        (IsPipeline(c) /\ call[c].TotalSteps = 0)
        => /\ response[c] = [Success |-> TRUE, FailedStep |-> "", CompletedSteps |-> 0,
                             TotalSteps |-> 0, StepResults |-> <<>>]
           /\ process[c] = NoProcess
           /\ HandlesOf(c) = {}
           /\ call[c].Inserts = 0
           /\ steps[c] = <<>>
           /\ call[c].Op = "ExecutePipeline" => call[c].pc = "returned" /\ stream[c] = <<>>
           /\ call[c].Op = "ExecutePipelineStream"
              => /\ call[c].pc \in {"finish", "returned"}
                 /\ call[c].pc = "finish" => stream[c] = <<>>
                 /\ (call[c].pc = "returned" /\ call[c].Err = "nil")
                    => stream[c] = <<PipelineCompletedEvent(response[c], 0)>>
                 /\ (call[c].pc = "returned" /\ call[c].Err # "nil") => stream[c] = <<>>

\* A streaming pipeline of no steps has returned after its only event.
C22_Witness ==
    \E c \in Calls :
        /\ call[c].Op = "ExecutePipelineStream"
        /\ call[c].TotalSteps = 0
        /\ call[c].pc = "returned"
        /\ response[c].Success
        /\ stream[c] = <<PipelineCompletedEvent(response[c], 0)>>


\* C28: max-concurrent is advisory: whatever the number of tracked processes,
\* a call of Execute or ExecuteStream can start its process, and a call that is
\* turned away is turned away by the allowlist or by a failed pipe or start;
\* the registry can hold more than maxConcurrent handles.  Health reports the
\* size of the registry at the moment of the call as runningCount and the
\* configured limit as maxConcurrent.
C28_MaxConcurrentAdvisory ==
    /\ [](\A c \in Calls :
             (call[c].pc = "idle" /\ "Execute" \in call[c].Ops)
             => ENABLED (Execute(c, Git, "none") /\ call'[c].pc = "spawned"))
    /\ [][\A c \in Calls :
             (call[c].pc = "idle" /\ call'[c].pc # "idle")
             => \/ call'[c].pc = "spawned"
                \/ /\ call'[c].pc = "returned"
                   /\ call'[c].Setup \in FailedSetups
                   /\ call'[c].Setup = "policy" <=> ~IsToolAllowed(call'[c].Tool)]_vars
    /\ [][healthResponse' # healthResponse
          => healthResponse' = [Status |-> "healthy",
                                RunningCount |-> Cardinality(DOMAIN running),
                                MaxConcurrent |-> Cardinality(Calls) - 1]]_vars

\* More processes are tracked than maxConcurrent allows, and Health said so.
C28_Witness ==
    /\ Cardinality(DOMAIN running) > MaxConcurrent
    /\ healthResponse.Status = "healthy"
    /\ healthResponse.RunningCount = Cardinality(DOMAIN running)
    /\ healthResponse.RunningCount > healthResponse.MaxConcurrent


\* C30: in Execute, ExecuteStream and the streaming pipeline step the handle
\* is in the registry before a reader reads anything: while the execution has
\* not returned, once a line was read or delivered GetRunningProcesses lists
\* the process and CancelProcess finds it.
C30_InsertBeforeRead ==
    \A c \in Calls, ch \in Channels :
        (/\ call[c].pc \in ExecPcs
         /\ \/ Scanned(c, ch) > 0
            \/ reader[c][ch].Returned
            \/ \E k \in 1 .. Len(stream[c]) :
                  /\ stream[c][k].Event = LineEvent(call[c].Op, ch)
                  /\ stream[c][k].StepIndex = call[c].Index)
        => /\ CurrentID(c) \in GetRunningProcesses
           /\ CancelResponse(CurrentID(c)).Success
           /\ call[c].Inserts = 1

\* A streaming pipeline step whose output line was delivered while its handle
\* is in the registry.
C30_Witness ==
    \E c \in Calls :
        /\ call[c].Op = "ExecutePipelineStream"
        /\ call[c].pc = "tracked"
        /\ Scanned(c, "stdout") > 0
        /\ Delivered(c, "stdout") # <<>>
        /\ CurrentID(c) \in GetRunningProcesses


\* C23: the working directory of a pipeline step is the step directory joined
\* under the workspace root when both are set, the step directory when only it
\* is set, the workspace root when only it is set, and unset when neither is;
\* the unary and the streaming variant compute the same directory.
C23_WorkDirPrecedence ==
    /\ \A v \in Variants : \A i \in 1 .. Len(cmd[v]) :
          LET stepDir == pipelineReq.Steps[i].WorkDir
              root == pipelineReq.WorkspaceDir
              dir == cmd[v][i].Dir
          IN  /\ (stepDir # "" /\ root # "") => dir = root \o "/" \o stepDir
              /\ (stepDir # "" /\ root = "") => dir = stepDir
              /\ (stepDir = "" /\ root # "") => dir = root
              /\ (stepDir = "" /\ root = "") => dir = ""
    /\ \A i \in 1 .. Len(cmd["ExecutePipeline"]) :
          i <= Len(cmd["ExecutePipelineStream"])
          => cmd["ExecutePipeline"][i].Dir = cmd["ExecutePipelineStream"][i].Dir

\* Both variants have built the commands of a step with a directory under a
\* workspace root and of a step without a directory.
C23_Witness ==
    /\ pipelineReq.WorkspaceDir = "ws"
    /\ \A v \in Variants :
          /\ Len(cmd[v]) = 2
          /\ cmd[v][1].Dir = "ws/sub"
          /\ cmd[v][2].Dir = "ws"

\* The entries of env with key k, a single character.
WithKey(env, k) == {i \in 1 .. Len(env) : env[i][1] = k /\ env[i][2] = "="}

\* The value of key k in the environment env of a process, "unset" without it.
Getenv(env, k) ==
    IF WithKey(env, k) = {} THEN <<"unset">>
    ELSE LET i == CHOOSE i \in WithKey(env, k) : TRUE IN SubSeq(env[i], 3, Len(env[i]))

\* The value of the last entry of env with key k.
LastValue(env, k) ==
    LET i == CHOOSE i \in WithKey(env, k) : \A j \in WithKey(env, k) : j <= i
    IN  SubSeq(env[i], 3, Len(env[i]))

\* C24: the environment of a pipeline step is the ambient environment, then
\* the pipeline env entries in order, then the step env entries in order, and
\* for a repeated key the last entry wins: the step's value, else the
\* pipeline's, else the ambient one.  Building the env of a step leaves the
\* pipeline env as it was.
C24_EnvComposition ==
    /\ [](\A v \in Variants : \A i \in 1 .. Len(cmd[v]) :
             LET c == cmd[v][i]
                 stepEnv == pipelineReq.Steps[i].Env
                 pipelineEnv == Elements(pipelineReq.Env)
                 env == ProcessEnv(c)
             IN  /\ c.EnvSet => c.Env = (Environ(c.Dir) \o pipelineEnv) \o stepEnv
                 /\ c.EnvSet <=> (pipelineEnv # <<>> \/ stepEnv # <<>>)
                 /\ \A k \in {"A", "B"} :
                       /\ Cardinality(WithKey(env, k)) <= 1
                       /\ Getenv(env, k) =
                             IF WithKey(stepEnv, k) # {} THEN LastValue(stepEnv, k)
                             ELSE IF WithKey(pipelineEnv, k) # {}
                             THEN LastValue(pipelineEnv, k)
                             ELSE IF WithKey(environ, k) # {} THEN LastValue(environ, k)
                             ELSE <<"unset">>)
    /\ [][Elements(pipelineReq'.Env) = Elements(pipelineReq.Env)]_vars

\* Key A is set in the ambient environment, twice by the pipeline and by the
\* first step; the unary variant appended the env of the first step into the
\* array of the pipeline env, and has built the second step after it.
C24_Witness ==
    /\ WithKey(environ, "A") # {}
    /\ Elements(pipelineReq.Env) = <<Kv("A", "p"), Kv("A", "q")>>
    /\ pipelineReq.Env.Array = <<Kv("A", "p"), Kv("A", "q"), Kv("A", "s")>>
    /\ pipelineReq.Steps[2].Env = <<>>
    /\ \A v \in Variants :
          /\ Len(cmd[v]) = 2
          /\ Getenv(ProcessEnv(cmd[v][1]), "A") = <<"s">>
          /\ Getenv(ProcessEnv(cmd[v][2]), "A") = <<"q">>


\* C25: for Execute and ExecuteStream the effective timeout is the request's
\* timeout when it is positive and the configured default otherwise; it is
\* fixed once, before the process starts: the deadline of the call is its
\* start plus that timeout and does not change, the process does not run past
\* it, and the result is timed out exactly when the process ended at it.
C25_EffectiveTimeout ==
    /\ [](timedCall.Op \in {"Execute", "ExecuteStream"}
          => LET effective == IF timedCall.TimeoutSeconds > 0
                              THEN timedCall.TimeoutSeconds ELSE config.DefaultTimeout
                 deadline == timedCall.StartedAt + effective
             IN  /\ timedCall.Deadline = [Set |-> TRUE, At |-> deadline]
                 /\ timedCall.pc = "running" => now <= deadline
                 /\ timedCall.pc = "done"
                    => (timedCall.TimedOut <=> timedCall.EndedAt = deadline))
    /\ [][timedCall.Op \in {"Execute", "ExecuteStream"}
          => timedCall'.Deadline = timedCall.Deadline]_vars

\* An ExecuteStream call without a timeout, begun after the start of the
\* clock, was ended by the default timeout; so was an Execute call elsewhere.
C25_Witness ==
    /\ timedCall.Op = "ExecuteStream"
    /\ timedCall.TimeoutSeconds = 0
    /\ timedCall.StartedAt > 0
    /\ timedCall.pc = "done"
    /\ timedCall.TimedOut
    /\ timedCall.EndedAt = timedCall.StartedAt + config.DefaultTimeout

\* C26: in a pipeline with an overall timeout, a step without a per-step
\* timeout has the remaining pipeline budget as its deadline: it is not ended
\* by the configured default timeout while pipeline budget remains.
C26_StepFallsBackToPipelineBudget ==
    (/\ timedCall.Op \in Variants
     /\ timedCall.TimeoutSeconds > 0
     /\ timedCall.StepTimeoutSeconds <= 0
     /\ timedCall.pc \in {"running", "done"})
    => /\ timedCall.Deadline = timedCall.PipelineDeadline
       /\ timedCall.TimedOut => timedCall.EndedAt >= timedCall.PipelineDeadline.At

\* C27: in both pipeline variants a step with a positive per-step timeout does
\* not run past that timeout, and a step still running when it elapses is ended
\* then with a timed-out result (timedOut=true, exitCode=-1, success=false),
\* whatever the deadline of the pipeline.
C27_StepTimeoutTerminates ==
    (/\ timedCall.Op \in Variants
     /\ timedCall.StepTimeoutSeconds > 0)
    => LET deadline == timedCall.StartedAt + timedCall.StepTimeoutSeconds
       IN  /\ timedCall.pc = "running" => now <= deadline
           /\ (timedCall.pc = "done" /\ timedCall.EndedAt >= deadline)
              => /\ timedCall.EndedAt = deadline
                 /\ timedCall.TimedOut = TRUE
                 /\ timedCall.ExitCode = -1
                 /\ timedCall.Success = FALSE


\* C29 as stated: after a shutdown signal a graceful stop is started first;
\* the forced stop happens only when the timer has fired and GracefulStop had
\* not returned at that moment; the server eventually stops.
C29_ForcedOnlyIfGracefulIncomplete ==
    /\ [](shutdown.pc # "waiting" => shutdown.Stopper # "none")
    /\ []((shutdown.pc = "forcing" \/ shutdown.Forced)
          => shutdown.Timer = "fired" /\ shutdown.FiredAt = "stopping")
    /\ (shutdown.pc # "waiting") ~> (grpcServer.State = "stopped")

\* C29: after a shutdown signal a graceful stop is started first, under which
\* the server takes no new call and the calls in flight may finish; the forced
\* stop is called only when the timer has fired before the end of the graceful
\* stop was signalled on the done channel; no call is cut before the timer has
\* fired, and a server that has stopped has no call in flight; after the
\* signal the server eventually stops.
C29_GracefulThenForced ==
    /\ [](shutdown.pc # "waiting"
          => shutdown.Stopper # "none" /\ grpcServer.State # "serving")
    /\ []((shutdown.pc = "forcing" \/ shutdown.Forced)
          => shutdown.Timer = "fired" /\ shutdown.FiredAt \in {"stopping", "returned"})
    /\ [](\A r \in Rpcs :
             /\ grpcServer.Rpc[r] = "aborted"
                => shutdown.Forced /\ shutdown.FiredAt = "stopping"
             /\ grpcServer.State = "stopped" => grpcServer.Rpc[r] # "running")
    /\ [][\A r \in Rpcs :
             (grpcServer.Rpc[r] = "none" /\ grpcServer'.Rpc[r] # "none")
             => grpcServer.State = "serving"]_vars
    /\ (shutdown.pc # "waiting") ~> (grpcServer.State = "stopped")

\* The timer fired while a call was in flight and another had finished during
\* the graceful stop: the forced stop cut the call that was left.
C29_Witness ==
    /\ shutdown.Forced
    /\ shutdown.FiredAt = "stopping"
    /\ grpcServer.State = "stopped"
    /\ \E r \in Rpcs : grpcServer.Rpc[r] = "aborted"
    /\ \E r \in Rpcs : grpcServer.Rpc[r] = "finished"


\* C37: in every ExecuteResponse the service returns, those synthesized for
\* the steps that could not be invoked included, success=true holds exactly
\* when exitCode=0; success=true implies timedOut=false and an empty error;
\* timedOut=true implies exitCode=-1 and success=false.
C37_ResultFieldsConsistent ==
    \A c \in Calls :
        result[c] # NoResult
        => /\ result[c].Success <=> result[c].ExitCode = 0
           /\ result[c].Success => (~result[c].TimedOut /\ result[c].Error = "")
           /\ result[c].TimedOut => (result[c].ExitCode = -1 /\ ~result[c].Success)


\* C35: a process that exits by itself (neither the deadline nor a cancel
\* killed it) with a non-zero code n gives a result with exitCode=n,
\* success=false and timedOut=false, whenever the deadline elapses; one that
\* exits cleanly gives exitCode=0 and success=true.
C35_ExitCodeClassified ==
    \A c \in Calls :
        (/\ call[c].pc = "reaped"
         /\ process[c].State = "reaped"
         /\ process[c].KilledBy = "none")
        => IF process[c].ExitCode # 0
           THEN /\ result[c].ExitCode = process[c].ExitCode
                /\ result[c].Success = FALSE
                /\ result[c].TimedOut = FALSE
           ELSE /\ result[c].ExitCode = 0
                /\ result[c].Success = TRUE


\* C31: in every execution cmd.Wait is awaited only after both readers have
\* finished, and the buffers are read into the result after that join: the
\* result holds every line the process wrote to each pipe.
C31_JoinBeforeWait ==
    \A c \in Calls, ch \in Channels :
        /\ call[c].pc \in {"joined", "reaped"} => ReaderDone(c, ch)
        /\ call[c].pc = "reaped"
           => Captured(result[c], ch) = Concat(Produced(ch, output[c][ch]))


\* C39: the step of CancelProcess that cancels a process, and any step that
\* answers a CancelRequest, leaves the registry as it was (the cancelled
\* entry stays, no other entry is touched); the cancelled process is the one
\* of a handle in the registry, and the process and the contexts of every
\* other call are unchanged. An entry leaves the registry only in a step of
\* the execution that owns it.
C39_CancelFrame ==
    [][/\ \A c \in Calls :
              (process'[c].Cancelled /\ ~process[c].Cancelled)
              => /\ running' = running
                 /\ \E id \in DOMAIN running : running[id].Cancel = c
                 /\ \A d \in Calls \ {c} : process'[d] = process[d] /\ ctx'[d] = ctx[d]
       /\ cancelResponse' # cancelResponse => running' = running
       /\ \A id \in DOMAIN running :
              id \notin DOMAIN running' => call'[id[1]] # call[id[1]]]_vars

\* Two executions are tracked, one was cancelled and the other still runs.
C39_Witness ==
    \E c, d \in Calls :
        /\ c # d
        /\ HandlesOf(c) # {} /\ HandlesOf(d) # {}
        /\ process[c].Cancelled /\ process[c].KilledBy = "cancel"
        /\ process[d].State = "running" /\ ~process[d].Cancelled


\* The positions of the pipeline-completed events in a stream.
Completions(s) == {k \in 1..Len(s) : s[k].Event = "pipeline_completed"}

\* Call c is a streaming pipeline that returns in this step.
StreamReturns(c) ==
    /\ call[c].Op = "ExecutePipelineStream"
    /\ call[c].pc # "returned"
    /\ call'[c].pc = "returned"

\* C33 (as stated): a run of ExecutePipelineStream returns only through the
\* send of its pipeline-completed event, whatever ended the run, a failed
\* delivery of an earlier event included.
C33_CompletedOnEveryEnd ==
    [][\A c \in Calls : StreamReturns(c) => call[c].pc = "finish"]_vars

\* C33 (amended): a run that leaves its loop (all steps done, a failing step,
\* an exhausted deadline) sends one pipeline-completed event and returns; when
\* delivered it is the only such event, the last of the stream, and carries
\* the response with every step result.  A run whose step-started or
\* step-completed delivery fails returns that error at once, and its stream
\* has no pipeline-completed event.
C33_OneCompletedUnlessDeliveryFailed ==
    /\ [](\A c \in Calls :
            /\ Cardinality(Completions(stream[c])) <= 1
            /\ Completions(stream[c]) \subseteq {Len(stream[c])}
            /\ Completions(stream[c]) # {}
               => /\ call[c].pc = "returned" /\ call[c].Err = "nil"
                  /\ stream[c][Len(stream[c])].Result = response[c]
                  /\ Len(response[c].StepResults) = response[c].CompletedSteps
            /\ (/\ call[c].Op = "ExecutePipelineStream"
                /\ call[c].pc = "returned"
                /\ call[c].Err = "nil")
               => Completions(stream[c]) = {Len(stream[c])})
    /\ [][\A c \in Calls :
            StreamReturns(c)
            => IF call[c].pc = "finish"
               THEN \/ /\ call'[c].Err = "nil"
                       /\ stream'[c] = Append(stream[c],
                                              PipelineCompletedEvent(response[c], call[c].Index))
                    \/ call'[c].Err = "send" /\ stream'[c] = stream[c]
               ELSE /\ call[c].pc \in {"loop", "stepdone"}
                    /\ call'[c].Err = "send"
                    /\ stream'[c] = stream[c]
                    /\ Completions(stream[c]) = {}]_vars

\* A streaming pipeline aborted by its failing step has delivered its
\* pipeline-completed event with the step result in it.
C33_Witness ==
    \E c \in Calls :
        /\ call[c].Op = "ExecutePipelineStream"
        /\ call[c].pc = "returned"
        /\ call[c].Err = "nil"
        /\ ~response[c].Success
        /\ response[c].CompletedSteps = 1
        /\ Completions(stream[c]) = {Len(stream[c])}
        /\ stream[c][Len(stream[c])].Result = response[c]


\* The events that carry an output line of a pipeline step.
StepOutputEvents == {LineEvent("ExecutePipelineStream", ch) : ch \in Channels}

\* The positions in a stream of the events of one kind of step i.
EventsOf(s, event, i) == {k \in 1 .. Len(s) : s[k].Event = event /\ s[k].StepIndex = i}

\* C32: in the stream of ExecutePipelineStream, the step-started event of a
\* step is delivered before its process is spawned and before each of its
\* output events; an output event is tagged with the index (hence the name)
\* of the step whose process wrote the line; the step-completed event of a
\* step comes after every output event of the step and before the
\* step-started event of the next step.
C32_StepEventOrder ==
    /\ [](\A c \in Calls :
            call[c].Op = "ExecutePipelineStream"
            => LET s == stream[c]
               IN  /\ (call[c].pc \in ExecPcs /\ process[c].State # "none")
                      => EventsOf(s, "step_started", call[c].Index) # {}
                   /\ \A k \in 1 .. Len(s) :
                        LET i == s[k].StepIndex
                        IN  /\ s[k].Event \in StepOutputEvents
                               => /\ \E j \in EventsOf(s, "step_started", i) : j < k
                                  /\ \A j \in EventsOf(s, "step_completed", i) : k < j
                            /\ s[k].Event = "step_completed"
                               => \E j \in EventsOf(s, "step_started", i) : j < k
                            /\ (s[k].Event = "step_started" /\ i > 0)
                               => \E j \in EventsOf(s, "step_completed", i - 1) : j < k
                            /\ s[k].Event \in {"step_started", "step_completed"}
                               => Cardinality(EventsOf(s, s[k].Event, i)) = 1)
    /\ [][\A c \in Calls :
            (/\ call[c].Op = "ExecutePipelineStream"
             /\ Len(stream'[c]) > Len(stream[c])
             /\ stream'[c][Len(stream'[c])].Event \in StepOutputEvents)
            => /\ stream'[c][Len(stream'[c])].StepIndex = call[c].Index
               /\ process[c].State # "none"
               /\ call[c].pc = "tracked"]_vars

\* The second step of a streaming pipeline has delivered an output line after
\* the first step delivered one and completed.
C32_Witness ==
    \E c \in Calls, ch \in Channels :
        LET s == stream[c]
            out == LineEvent("ExecutePipelineStream", ch)
        IN  /\ call[c].Op = "ExecutePipelineStream"
            /\ call[c].Index = 1
            /\ EventsOf(s, out, 0) # {}
            /\ EventsOf(s, "step_completed", 0) # {}
            /\ EventsOf(s, out, 1) # {}


\* The goroutines between Lock and Unlock, and between RLock and RUnlock.
Writing == {w \in Workers : worker[w].pc \in {"insert", "delete", "unlock", "unlocklast"}}
Reading == {w \in Workers : worker[w].pc \in {"lookup", "len", "cap", "range", "runlock"}}

\* A RunningProcess with every field set, stored under id.
FullyConstructed(h, id) ==
    /\ h.ID = id
    /\ h.Tool \in Tools
    /\ h.Cancel \in Calls

\* C34: under any interleaving of executions, CancelProcess,
\* GetRunningProcesses and Health, a goroutine that inserts or deletes holds
\* the lock alone, goroutines that look up, count or range hold it shared with
\* no writer inside, every handle in the map or read from it is fully
\* constructed, and what a reader sees under one read lock is one state of
\* the map.
C34_RegistrySynchronized ==
    /\ \A w \in Writing : mu.writer = w /\ mu.readers = {} /\ Writing = {w} /\ Reading = {}
    /\ \A w \in Reading : w \in mu.readers /\ mu.writer = "none" /\ Writing = {}
    /\ mu.readers = Reading
    /\ \A id \in DOMAIN running : FullyConstructed(running[id], id)
    /\ \A w \in Workers :
          /\ \A h \in worker[w].Seen.Handles : FullyConstructed(h, h.ID)
          /\ (worker[w].Job = "GetRunningProcesses" /\ worker[w].pc \in {"runlock", "done"})
             => worker[w].Seen.Len = Cardinality(worker[w].Seen.Handles)
          /\ (worker[w].Job = "CancelProcess" /\ worker[w].pc = "runlock")
             => worker[w].Seen.Handles
                  = {running[id] : id \in DOMAIN running \cap {worker[w].ID}}

\* One goroutine holds the write lock for its insert while another waits to
\* delete and a third waits to read.
C34_Witness ==
    \E w, v, r \in Workers :
        /\ worker[w].pc = "insert" /\ mu.writer = w
        /\ worker[v].pc = "relock"
        /\ worker[r].pc = "rlock"
        /\ DOMAIN running # {}


\* C38: during a streaming execution the stdout reader and the stderr reader
\* of a call are never inside stream.Send at the same time.
C38_SendsExclusive ==
    \A c \in Calls : Cardinality({ch \in Channels : <<c, ch>> \in inSend}) <= 1


\* C36: every execution that started a process, in any operation, ends even
\* if the child never exits by itself: the process is terminated, the
\* execution returns and its handle leaves the registry; every pipeline
\* reaches a terminal state.
C36_EveryExecutionEnds ==
    \A c \in Calls :
        /\ (process[c].State = "running") ~> (process[c].State # "running")
        /\ (call[c].pc \in ExecPcs) ~> (call[c].pc \notin ExecPcs /\ HandlesOf(c) = {})
        /\ (call[c].pc # "idle") ~> (call[c].pc = "returned")

====
